---- MODULE Spec2Model ----
(***************************************************************************)
(* A model of the ingestion / extraction / scoring pipeline of the         *)
(* Market Demand Radar (main_v2.py and the modules under src/).            *)
(*                                                                         *)
(* The module holds one state machine per component.  Every component has  *)
(* its own variables, its own initial predicate and its own specification  *)
(* (SpecRetry, SpecFetch, SpecScore, SpecExtract); the variables of the    *)
(* other components stay at their idle values under a specification.       *)
(*                                                                         *)
(* Numbers that are floats in the program are fixed-point integers here:   *)
(* a score is counted in units of 1/3000 (Unit), so that every term of the *)
(* scoring formulas except the logarithm is exact; time is in milliseconds *)
(* for the retry delays and in whole days for the age of a post.           *)
(***************************************************************************)
EXTENDS Integers, Sequences, FiniteSets, TLC

VARIABLES
    \* ---- fetch_with_retry (one call) ----
    adapter,      \* which scraper class runs the call
    attempt,      \* the loop variable of `for attempt in range(MAX_RETRIES)`
    rpc,          \* "loop" | "returned" | "raised"
    requests,     \* number of client.get / client.post calls issued
    outcomes,     \* the per-request outcomes, in order
    sleeps,       \* the asyncio.sleep calls made: <<[gap, ms, why]>>
    result        \* what the call returned or raised

retryVars == <<adapter, attempt, rpc, requests, outcomes, sleeps, result>>

VARIABLES
    \* ---- the fetching stage of main, and fetch_multiple_subreddits ----
    fmode,        \* "main" | "gather" | "off": which of the two runs
    mpc,          \* position in main: "reddit" | "producthunt" | "appstore" |
                  \* "chrome_top" | "chrome_ext" | "check" | "no_posts" | "processing";
                  \* in fetch_multiple_subreddits: "gathering" | "joined"
    idx,          \* index of the selector the current loop is at
    nSub,         \* len(subreddits)
    nExt,         \* len(extensions[:5])
    raw_posts,    \* main's raw_posts list
    fetchLog,     \* selector -> what its fetch did (Raised or Returned(n))
    srcErrors,    \* the sources whose source-level except clause ran
    gtask,        \* gather: task index -> Pending | Raised | Returned(n)
    all_posts     \* fetch_multiple_subreddits' return value

fetchVars == <<fmode, mpc, idx, nSub, nExt, raw_posts, fetchLog, srcErrors,
               gtask, all_posts>>

VARIABLES
    \* ---- ScoringEngine.score_post ----
    now,          \* the clock datetime.now() reads, in whole days
    post,         \* the dict object handed to score_post (key -> value)
    input0,       \* the value of that dict before it was first scored
    ret,          \* what the last score_post call returned (<<>> before)
    scorings      \* one entry per score_post call made on this input, in order

scoreVars == <<now, post, input0, ret, scorings>>

VARIABLES
    \* ---- LLMExtractor.extract_opportunity (one call by a caller) ----
    xpc,          \* "calling" | "returned" | "raised" | "off"
    xmodel,       \* self.model of the extractor whose call runs
    xcalls,       \* the model calls made: <<[model, failed, noJson]>>
    xlast,        \* the response of the model call that ended the extraction
    xresult       \* what the caller got: [kind, value]

extractVars == <<xpc, xmodel, xcalls, xlast, xresult>>

VARIABLES
    \* ---- one run of main, from the imports to the scored collection ----
    key_set,      \* OPENAI_API_KEY is in the environment
    skip_gpt,     \* args.no_gpt
    skip_competitive, \* args.no_competitive
    runpc,        \* "import" | "import_failed" | "fetching" | "no_posts" |
                  \* "extracting" | "enriching" | "scoring" | "done" | "crashed"
    posts,        \* the post objects of the run, in raw_posts order
    tasks,        \* batch_extract: post index -> the state of its task
    bstart,       \* batch_extract: index of the first post of the current batch
    bawait,       \* batch_extract: index of the post whose task is awaited next
    eidx,         \* batch_enrich_posts: index of the post enriched next
    sidx,         \* score_posts: index of the post scored next
    stages,       \* the stages started so far, in order
    scored_posts  \* what score_posts returned

runVars == <<key_set, skip_gpt, skip_competitive, runpc, posts, tasks, bstart,
             bawait, eidx, sidx, stages, scored_posts>>

VARIABLES
    \* ---- CompetitiveFetcher.enrich_post_with_competitive_data ----
    eclock,       \* the time, in hours
    ecalls,       \* the enrichment calls made: <<[post, keywords, at]>>
    searches      \* the store searches issued: <<[call, keywords, at]>>

enrichVars == <<eclock, ecalls, searches>>

VARIABLES
    \* ---- the normalizing steps of search_ideas (analysis.py) ----
    npc,          \* "searching" | "normalized"
    found,        \* the submissions the searches yield, in order
    results,      \* the list built at analysis.py:122-138
    deduped,      \* the list built at analysis.py:141-146
    filtered      \* the list built at analysis.py:158-161

normVars == <<npc, found, results, deduped, filtered>>

VARIABLES
    \* ---- one batch fetch of a source adapter ----
    apc,          \* "call" | "returned" | "off"
    akind,        \* the adapter
    alimit,       \* the limit argument
    asupplied,    \* the number of items the endpoint's response holds
    aleading,     \* App Store: the first entry of the feed is the app's own
    atimed,       \* the items of the response carry a timestamp
    aposts,       \* the list the batch fetch returned
    araw          \* the RawPosts emitted

adapterVars == <<apc, akind, alimit, asupplied, aleading, atimed, aposts, araw>>

VARIABLES
    \* ---- CompetitiveFetcher.search_competitors (competitive.py) ----
    spc,          \* "appstore" | "chromestore" | "aggregate" | "done" | "off"
    splatform,    \* the platform argument
    skw,          \* the keywords list is not empty
    sclient,      \* self.client of the fetcher: "none" | "open" | "closed"
    sapps,        \* the apps the App Store holds for the keywords
    sexts,        \* the extensions of the store's top list
    spage,        \* the request for the top list: "ok" | "error"
    competitors,  \* the list competitors of the call
    sresult       \* the dict the call returns

searchVars == <<spc, splatform, skw, sclient, sapps, sexts, spage, competitors,
                sresult>>

VARIABLES
    \* ---- LLMExtractor.batch_extract on a long list (extractor.py) ----
    batchpc,      \* "create" | "await" | "done" | "off"
    nposts,       \* the number of posts passed in; post i has text i
    failing,      \* the pattern of the extraction calls that raise
    btasks,       \* the task created for each post
    batch_i,      \* the loop variable i of line 128, from 1
    nawaited,     \* the number of tasks awaited so far
    overtaken,    \* a call completed while an earlier one was pending
    bresults      \* the list results

batchVars == <<batchpc, nposts, failing, btasks, batch_i, nawaited, overtaken,
               bresults>>

VARIABLES
    \* ---- calculate_demand_score on two inputs in a row (scoring.py) ----
    d_post_score, \* the three arguments of the latest call
    d_sentiment,
    d_velocity,
    d_score,      \* what the latest call returned
    d_before,     \* what the call before it returned
    d_raised      \* the argument raised between the two calls, or "none"

demandVars == <<d_post_score, d_sentiment, d_velocity, d_score, d_before,
                d_raised>>

VARIABLES
    \* ---- a fetched post on its way to score_post ----
    pipepc,       \* "fetched" | "enriched" | "scored" | "off"
    fetched,      \* the RawPost as the adapter built it
    piped         \* the post as the stages have left it

pipeVars == <<pipepc, fetched, piped>>

VARIABLES
    \* ---- the file cache of get_app_store_rating_trend and ----
    \* ---- get_chrome_store_stats (competitive.py)           ----
    cclock,       \* the hour datetime.now() shows
    cfile,        \* the cache file of each key
    ccalls,       \* the calls made so far, each with its position
    cwrites,      \* the writes to cache files, in order
    crequests     \* the number of store requests made so far

cacheVars == <<cclock, cfile, ccalls, cwrites, crequests>>

VARIABLES
    \* ---- the HTTP client of CompetitiveFetcher (competitive.py) ----
    kpc,          \* "new" | "entered" | "exited" | "off"
    kclient,      \* self.client of the fetcher: "none" | "open" | "closed"
    kcalls        \* the store calls made so far, each with what it met

clientVars == <<kpc, kclient, kcalls>>

VARIABLES
    \* ---- one calculate_velocity call (scoring.py) ----
    vpc,          \* "call" | "returned" | "off"
    vnow,         \* the day datetime.now() shows
    vcreated,     \* created_at, a day
    vcomments,    \* comments_count
    vvelocity     \* what the call returned, in Units

velocityVars == <<vpc, vnow, vcreated, vcomments, vvelocity>>

VARIABLES
    \* ---- the keyword derivation of enrichment (competitive.py) ----
    kwseed,       \* the string-hash seed of the running interpreter
    kwcalls       \* the derivations made so far

keywordVars == <<kwseed, kwcalls>>

VARIABLES
    \* ---- get_gold_zone_posts as main calls it (scoring.py) ----
    gpc,          \* "scored" | "reported" | "off"
    gposts,       \* the scored posts handed to the call
    gold_zone_posts,  \* what the call returned
    greported     \* the gold-zone count the run prints

goldVars == <<gpc, gposts, gold_zone_posts, greported>>

VARIABLES
    \* ---- the created_at handling of score_post (scoring.py) ----
    tpc,          \* "call" | "returned" | "raised" | "off"
    tform,        \* the form of the post's created_at
    tday,         \* the day the created_at value denotes
    tcomments,    \* comments_count of the post
    tvelocity     \* scoring_factors.velocity of the scored post, in Units

createdVars == <<tpc, tform, tday, tcomments, tvelocity>>

VARIABLES
    \* ---- DemandSupplyScorer.get_opportunity_matrix (scoring_engine.py) ----
    mxpc,          \* "loop" | "returned" | "off"
    ideas_list,   \* the ideas handed to the call
    xresults,     \* the ideas scored so far
    matrix        \* what the call returned

matrixVars == <<mxpc, ideas_list, xresults, matrix>>

\* The variables of the first four components, and of the later ones.
baseVars == <<retryVars, fetchVars, scoreVars, extractVars>>
moreVars == <<runVars, enrichVars, normVars, adapterVars>>
earlyVars == <<baseVars, moreVars>>
lateVars == <<searchVars, batchVars, demandVars, pipeVars, cacheVars, clientVars, velocityVars, keywordVars, goldVars, createdVars, matrixVars>>

vars == <<retryVars, fetchVars, scoreVars, extractVars, moreVars, lateVars>>

(***************************************************************************)
(*                         fetch_with_retry                                *)
(***************************************************************************)

\* reddit_scraper.py:26, appstore_scraper.py:23, producthunt_scraper.py:26,
\* chromestore_scraper.py:26
MAX_RETRIES == 3
\* reddit_scraper.py:27 (seconds)
BASE_DELAY == 2

Adapters == {"reddit", "producthunt", "appstore", "chromestore"}

\* reddit and appstore return response.json(); producthunt and chromestore
\* return response.text, which cannot fail.
ParsesJson(a) == a \in {"reddit", "appstore"}

\* What one request can be answered with:
\*   "ok"      2xx with a well-formed body
\*   "badbody" 2xx with a body that is not JSON
\*   "net"     a transport error (httpx.RequestError)
\*   "s500" "s429" "s404"  the status codes 500, 429, 404
Outcomes == {"ok", "badbody", "net", "s500", "s429", "s404"}

\* The spec's taxonomy (4.1): network / 5xx / 429 are transient, a 4xx other
\* than 429 and a malformed response are permanent.
Transient == {"net", "s500", "s429"}
Permanent == {"s404", "badbody"}

\* random.uniform(0.1, 0.5), in milliseconds: the two ends and the middle.
Jitters == {100, 300, 500}

RECURSIVE Pow(_, _)
Pow(b, n) == IF n = 0 THEN 1 ELSE b * Pow(b, n - 1)

\* A delay without the jitter: a faulty variant of Delay.
DelayWithoutJitter(att, jitter) == Pow(BASE_DELAY, att) * 1000

\* delay = (BASE_DELAY ** attempt) + jitter, in milliseconds
Delay(att, jitter) == Pow(BASE_DELAY, att) * 1000 + jitter

\* `except httpx.HTTPError`: raise_for_status raises HTTPStatusError for every
\* non-2xx status, a transport error is a RequestError; both are HTTPErrors.
\* json.JSONDecodeError (from response.json()) is not.
IsHTTPError(o) == o \in {"net", "s500", "s429", "s404"}

\* `if attempt == MAX_RETRIES - 1: raise` (LastAttemptOff: the test off by
\* one, a faulty variant)
LastAttemptOff(att) == att = MAX_RETRIES
LastAttempt(att) == att = MAX_RETRIES - 1

\* `if getattr(e, "response", None) and e.response.status_code == 429`
Is429(o) == o = "s429"

\* `if attempt > 0: await asyncio.sleep(delay)`
SleepBefore(att, jitter) ==
    IF att > 0 THEN <<[gap |-> att, ms |-> Delay(att, jitter), why |-> "backoff"]>>
    ELSE <<>>

IdleRetry ==
    /\ adapter = "reddit"
    /\ attempt = 0
    /\ rpc = "off"
    /\ requests = 0
    /\ outcomes = <<>>
    /\ sleeps = <<>>
    /\ result = "pending"

IdleFetch ==
    /\ fmode = "off"
    /\ mpc = "off"
    /\ idx = 1
    /\ nSub = 0
    /\ nExt = 0
    /\ raw_posts = <<>>
    /\ fetchLog = <<>>
    /\ srcErrors = {}
    /\ gtask = <<>>
    /\ all_posts = <<>>

IdleScore ==
    /\ now = 0
    /\ post = <<>>
    /\ input0 = <<>>
    /\ ret = <<>>
    /\ scorings = <<>>

IdleExtract ==
    /\ xpc = "off"
    /\ xmodel = "gpt-3.5-turbo"
    /\ xcalls = <<>>
    /\ xlast = [err |-> "", text |-> <<>>]
    /\ xresult = [kind |-> "none", value |-> <<>>]

IdleRun ==
    /\ key_set = TRUE
    /\ skip_gpt = FALSE
    /\ skip_competitive = FALSE
    /\ runpc = "off"
    /\ posts = <<>>
    /\ tasks = <<>>
    /\ bstart = 1
    /\ bawait = 1
    /\ eidx = 1
    /\ sidx = 1
    /\ stages = <<>>
    /\ scored_posts = <<>>

IdleEnrich ==
    /\ eclock = 0
    /\ ecalls = <<>>
    /\ searches = <<>>

IdleNorm ==
    /\ npc = "off"
    /\ found = <<>>
    /\ results = <<>>
    /\ deduped = <<>>
    /\ filtered = <<>>

IdleAdapter ==
    /\ apc = "off"
    /\ akind = "reddit"
    /\ alimit = 0
    /\ asupplied = 0
    /\ aleading = FALSE
    /\ atimed = FALSE
    /\ aposts = <<>>
    /\ araw = <<>>

IdleBase == IdleRetry /\ IdleFetch /\ IdleScore /\ IdleExtract
IdleSearch ==
    /\ spc = "off"
    /\ splatform = "all"
    /\ skw = FALSE
    /\ sclient = "none"
    /\ sapps = <<>>
    /\ sexts = <<>>
    /\ spage = "ok"
    /\ competitors = <<>>
    /\ sresult = [app_count |-> 0, avg_rating |-> 0, competitors |-> <<>>]

IdleBatch ==
    /\ batchpc = "off"
    /\ nposts = 0
    /\ failing = "none"
    /\ btasks = <<>>
    /\ batch_i = 1
    /\ nawaited = 0
    /\ overtaken = FALSE
    /\ bresults = <<>>

IdleDemand ==
    /\ d_post_score = 0
    /\ d_sentiment = 0
    /\ d_velocity = 0
    /\ d_score = 0
    /\ d_before = 0
    /\ d_raised = "off"

IdlePipe ==
    /\ pipepc = "off"
    /\ fetched = <<>>
    /\ piped = <<>>

IdleCache ==
    /\ cclock = 0
    /\ cfile = <<>>
    /\ ccalls = <<>>
    /\ cwrites = <<>>
    /\ crequests = 0

IdleClient ==
    /\ kpc = "off"
    /\ kclient = "none"
    /\ kcalls = <<>>

IdleVelocity ==
    /\ vpc = "off"
    /\ vnow = 0
    /\ vcreated = 0
    /\ vcomments = 0
    /\ vvelocity = 0

IdleKeywords ==
    /\ kwseed = 0
    /\ kwcalls = <<>>

IdleGold ==
    /\ gpc = "off"
    /\ gposts = <<>>
    /\ gold_zone_posts = <<>>
    /\ greported = 0

IdleCreated ==
    /\ tpc = "off"
    /\ tform = "absent"
    /\ tday = 0
    /\ tcomments = 0
    /\ tvelocity = 0

IdleMatrix ==
    /\ mxpc = "off"
    /\ ideas_list = <<>>
    /\ xresults = <<>>
    /\ matrix = <<>>

IdleLate == IdleSearch /\ IdleBatch /\ IdleDemand /\ IdlePipe /\ IdleCache /\ IdleClient /\ IdleVelocity /\ IdleKeywords /\ IdleGold /\ IdleCreated /\ IdleMatrix
IdleMore == IdleRun /\ IdleEnrich /\ IdleNorm /\ IdleAdapter /\ IdleLate
IdleEarly == IdleBase /\ IdleRun /\ IdleEnrich /\ IdleNorm /\ IdleAdapter

InitRetry ==
    /\ IdleFetch /\ IdleScore /\ IdleExtract /\ IdleMore
    /\ adapter \in Adapters
    /\ attempt = 0
    /\ rpc = "loop"
    /\ requests = 0
    /\ outcomes = <<>>
    /\ sleeps = <<>>
    /\ result = "pending"

\* One iteration whose request is answered 2xx and whose body is returned.
AttemptReturns(o, jitter) ==
    /\ rpc = "loop" /\ attempt < MAX_RETRIES
    /\ \/ o = "ok"
       \/ o = "badbody" /\ ~ParsesJson(adapter)
    /\ sleeps' = sleeps \o SleepBefore(attempt, jitter)
    /\ requests' = requests + 1
    /\ outcomes' = Append(outcomes, o)
    /\ rpc' = "returned"
    /\ result' = "value"
    /\ UNCHANGED <<adapter, attempt>>
    /\ UNCHANGED <<fetchVars, scoreVars, extractVars, moreVars, lateVars>>

\* One iteration whose response.json() raises: the error is no HTTPError, so
\* the except clause does not catch it and it leaves the function.
AttemptDecodeError(o, jitter) ==
    /\ rpc = "loop" /\ attempt < MAX_RETRIES
    /\ o = "badbody" /\ ParsesJson(adapter)
    /\ sleeps' = sleeps \o SleepBefore(attempt, jitter)
    /\ requests' = requests + 1
    /\ outcomes' = Append(outcomes, o)
    /\ rpc' = "raised"
    /\ result' = o
    /\ UNCHANGED <<adapter, attempt>>
    /\ UNCHANGED <<fetchVars, scoreVars, extractVars, moreVars, lateVars>>

\* One iteration whose request raises an httpx.HTTPError: re-raised on the
\* last attempt, otherwise (after the extra sleep of a 429) the loop goes on;
\* a loop that runs out without raising returns None.
AttemptHTTPError(o, jitter) ==
    /\ rpc = "loop" /\ attempt < MAX_RETRIES
    /\ IsHTTPError(o)
    /\ requests' = requests + 1
    /\ outcomes' = Append(outcomes, o)
    /\ IF LastAttempt(attempt)
       THEN /\ rpc' = "raised"
            /\ result' = o
            /\ sleeps' = sleeps \o SleepBefore(attempt, jitter)
            /\ UNCHANGED attempt
       ELSE /\ sleeps' = sleeps \o SleepBefore(attempt, jitter) \o
                   (IF Is429(o)
                    THEN <<[gap |-> attempt + 1, ms |-> Delay(attempt, jitter) * 2,
                            why |-> "429"]>>
                    ELSE <<>>)
            /\ attempt' = attempt + 1
            /\ IF attempt + 1 < MAX_RETRIES
               THEN UNCHANGED <<rpc, result>>
               ELSE rpc' = "returned" /\ result' = "none"
    /\ UNCHANGED adapter
    /\ UNCHANGED <<fetchVars, scoreVars, extractVars, moreVars, lateVars>>

NextRetry ==
    \/ \E o \in Outcomes, j \in Jitters : AttemptReturns(o, j)
    \/ \E o \in Outcomes, j \in Jitters : AttemptDecodeError(o, j)
    \/ \E o \in Outcomes, j \in Jitters : AttemptHTTPError(o, j)

SpecRetry == InitRetry /\ [][NextRetry]_vars

\* A request the call treats as a success: the body is returned.
Succeeds(a, o) == o = "ok" \/ (o = "badbody" /\ ~ParsesJson(a))

\* A request answered with what the taxonomy calls a permanent error.
IsPermanent(a, o) == o = "s404" \/ (o = "badbody" /\ ParsesJson(a))

\* C1: one fetch_with_retry call issues at most 3 requests; a request is
\* followed by another one only when it failed, so the first success is the
\* last request and is what the call returns; when every attempt fails with
\* a transient error the call issues exactly 3 requests and raises the error
\* of the third; the call never returns None.
C1_RetryBound ==
    /\ requests = Len(outcomes)
    /\ requests <= 3
    /\ \A i \in 1..(Len(outcomes) - 1) : ~Succeeds(adapter, outcomes[i])
    /\ rpc = "returned" =>
          /\ result = "value"
          /\ requests >= 1
          /\ Succeeds(adapter, outcomes[requests])
    /\ (rpc # "loop" /\ \A i \in 1..Len(outcomes) : outcomes[i] \in Transient) =>
          /\ rpc = "raised"
          /\ requests = 3
          /\ result = outcomes[3]

\* C1 witness: three transient failures, the third one raised to the caller.
C1_Witness ==
    /\ rpc = "raised"
    /\ requests = 3
    /\ \A i \in 1..3 : outcomes[i] \in Transient
    /\ result = outcomes[3]

\* C2 (as claimed): a permanent error (a 4xx other than 429, or a malformed
\* body where the body is parsed) is never followed by another request: it is
\* the last request of the call, and the call fails with it.
C2_PermanentNotRetried ==
    \A i \in 1..Len(outcomes) :
        IsPermanent(adapter, outcomes[i]) =>
            /\ i = Len(outcomes)
            /\ rpc # "loop" => rpc = "raised"

\* What does hold of C2: a malformed body ends the call after that request
\* (it is never retried) in the adapters that parse the body.
C2_DecodeErrorNotRetried ==
    \A i \in 1..Len(outcomes) :
        (outcomes[i] = "badbody" /\ ParsesJson(adapter)) =>
            /\ i = Len(outcomes)
            /\ rpc = "raised"

\* The time slept between attempt n and attempt n + 1 (attempts counted from
\* 1), in milliseconds: the sum of the sleeps of that gap.
RECURSIVE WaitOfGap(_, _)
WaitOfGap(ss, n) ==
    IF ss = <<>> THEN 0
    ELSE (IF Head(ss).gap = n THEN Head(ss).ms ELSE 0) + WaitOfGap(Tail(ss), n)

\* 2^n seconds, in milliseconds.
RECURSIVE TwoToThe(_)
TwoToThe(n) == IF n = 0 THEN 1000 ELSE 2 * TwoToThe(n - 1)

\* C32 (as claimed): no wait before the first attempt; the wait between failed
\* attempt n and attempt n + 1 is 2^n seconds plus a jitter of 0.1 to 0.5
\* seconds, and exactly twice such a delay when attempt n was answered with
\* HTTP 429.
C32_WaitDoubledOn429 ==
    /\ WaitOfGap(sleeps, 0) = 0
    /\ \A n \in 1..(Len(outcomes) - 1) :
          IF outcomes[n] = "s429"
          THEN \E j \in 100..500 : WaitOfGap(sleeps, n) = 2 * (TwoToThe(n) + j)
          ELSE \E j \in 100..500 : WaitOfGap(sleeps, n) = TwoToThe(n) + j

\* C32 (amended): no wait before the first attempt; the wait between failed
\* attempt n and attempt n + 1 is 2^n seconds plus a jitter; after a 429 the
\* call sleeps, in addition to that, twice the delay computed in the failed
\* attempt, 2 * (2^(n-1) + jitter of that attempt): 2^(n+1) seconds plus three
\* jitter terms in all.
C32_ExtraSleepOn429 ==
    /\ WaitOfGap(sleeps, 0) = 0
    /\ \A n \in 1..(Len(outcomes) - 1) :
          IF outcomes[n] = "s429"
          THEN \E j \in Jitters, k \in Jitters :
                  WaitOfGap(sleeps, n) = 2 * (TwoToThe(n - 1) + j) + TwoToThe(n) + k
          ELSE \E j \in Jitters : WaitOfGap(sleeps, n) = TwoToThe(n) + j

\* C32 witness: the second attempt was answered 429 and a third was made after
\* 2 * (2 + 0.5) + 4 + 0.5 seconds, more than twice any delay of that gap.
C32_Witness ==
    /\ Len(outcomes) = 3
    /\ outcomes[2] = "s429"
    /\ WaitOfGap(sleeps, 2) = 9500
    /\ WaitOfGap(sleeps, 1) \in {2100, 2300, 2500}

(***************************************************************************)
(*        The fetching stage of main, and fetch_multiple_subreddits        *)
(***************************************************************************)

\* Bounds of the model.
MaxSub == 2        \* at most this many configured subreddits
MaxPosts == 1      \* a successful fetch returns 0..MaxPosts posts
MaxExt == 2        \* fetch_top_extensions returns 0..MaxExt extensions

\* main_v2.py:89  app_ids has three entries
APP_IDS == 3
\* main_v2.py:106  extensions[:5]
TOP_N == 5

Min(a, b) == IF a < b THEN a ELSE b

\* What one fetch call (fetch_subreddit_posts, fetch_asks, fetch_app_reviews)
\* does: it raises, or it returns a list of posts.
Raised == [st |-> "raise", n |-> 0]
Returned(k) == [st |-> "ok", n |-> k]
Pending == [st |-> "pending", n |-> 0]
FetchResults == {Raised} \cup {Returned(k) : k \in 0..MaxPosts}

\* The posts one successful fetch of selector sel returns.
PostsOf(sel, n) == [j \in 1..n |-> [sel |-> sel, k |-> j]]

\* The selectors a run is configured with.
Selectors ==
    {<<"reddit", i>> : i \in 1..nSub} \cup {<<"producthunt", 1>>}
    \cup {<<"appstore", i>> : i \in 1..APP_IDS}
    \cup {<<"chrome", i>> : i \in 1..nExt}

Attempted == DOMAIN fetchLog

\* fetchLog with the outcome of one more fetch
Logged(sel, o) == [s \in Attempted \cup {sel} |-> IF s = sel THEN o ELSE fetchLog[s]]

InitMain ==
    /\ fmode = "main"
    /\ mpc = "reddit"
    /\ idx = 1
    /\ nSub \in 1..MaxSub
    /\ nExt = 0
    /\ raw_posts = <<>>
    /\ fetchLog = <<>>
    /\ srcErrors = {}
    /\ gtask = <<>>
    /\ all_posts = <<>>

InitGather ==
    /\ fmode = "gather"
    /\ mpc = "gathering"
    /\ idx = 1
    /\ nSub \in 1..MaxSub
    /\ nExt = 0
    /\ raw_posts = <<>>
    /\ fetchLog = <<>>
    /\ srcErrors = {}
    /\ gtask = [i \in 1..nSub |-> Pending]
    /\ all_posts = <<>>

InitFetch ==
    /\ IdleRetry /\ IdleScore /\ IdleExtract /\ IdleMore
    /\ InitMain \/ InitGather

\* main_v2.py:65-72  one iteration of `for subreddit_name in subreddits`, with
\* its own try/except
FetchSubreddit(o) ==
    /\ fmode = "main" /\ mpc = "reddit"
    /\ fetchLog' = Logged(<<"reddit", idx>>, o)
    /\ raw_posts' = IF o = Raised THEN raw_posts
                    ELSE raw_posts \o PostsOf(<<"reddit", idx>>, o.n)
    /\ IF idx < nSub
       THEN idx' = idx + 1 /\ UNCHANGED mpc
       ELSE idx' = 1 /\ mpc' = "producthunt"
    /\ UNCHANGED <<fmode, nSub, nExt, srcErrors, gtask, all_posts>>
    /\ UNCHANGED <<retryVars, scoreVars, extractVars, moreVars, lateVars>>

\* main_v2.py:76-82
FetchAsks(o) ==
    /\ fmode = "main" /\ mpc = "producthunt"
    /\ fetchLog' = Logged(<<"producthunt", 1>>, o)
    /\ raw_posts' = IF o = Raised THEN raw_posts
                    ELSE raw_posts \o PostsOf(<<"producthunt", 1>>, o.n)
    /\ srcErrors' = IF o = Raised THEN srcErrors \cup {"producthunt"} ELSE srcErrors
    /\ mpc' = "appstore"
    /\ idx' = 1
    /\ UNCHANGED <<fmode, nSub, nExt, gtask, all_posts>>
    /\ UNCHANGED <<retryVars, scoreVars, extractVars, moreVars, lateVars>>

\* Where the App Store loop goes after the fetch of one app id: the loop is
\* inside one try, so an exception leaves the loop.
AppStoreNext(o, i) ==
    IF o # Raised /\ i < APP_IDS THEN "appstore" ELSE "chrome_top"

\* main_v2.py:86-95  one iteration of `for app_id in app_ids`
FetchAppReviews(o) ==
    /\ fmode = "main" /\ mpc = "appstore"
    /\ fetchLog' = Logged(<<"appstore", idx>>, o)
    /\ raw_posts' = IF o = Raised THEN raw_posts
                    ELSE raw_posts \o PostsOf(<<"appstore", idx>>, o.n)
    /\ srcErrors' = IF o = Raised THEN srcErrors \cup {"appstore"} ELSE srcErrors
    /\ mpc' = AppStoreNext(o, idx)
    /\ idx' = IF AppStoreNext(o, idx) = "appstore" THEN idx + 1 ELSE 1
    /\ UNCHANGED <<fmode, nSub, nExt, gtask, all_posts>>
    /\ UNCHANGED <<retryVars, scoreVars, extractVars, moreVars, lateVars>>

\* main_v2.py:102, chromestore_scraper.py:102-185  fetch_top_extensions
\* catches every exception itself and returns the list it has (n entries);
\* main keeps the first five.
FetchTopExtensions(n) ==
    /\ fmode = "main" /\ mpc = "chrome_top"
    /\ nExt' = Min(n, TOP_N)
    /\ mpc' = IF n = 0 THEN "check" ELSE "chrome_ext"
    /\ idx' = 1
    /\ UNCHANGED <<fmode, nSub, raw_posts, fetchLog, srcErrors, gtask, all_posts>>
    /\ UNCHANGED <<retryVars, scoreVars, extractVars, moreVars, lateVars>>

\* main_v2.py:106-111  one iteration of `for extension in extensions[:5]`:
\* fetch_and_convert_to_raw_post returns one post or raises; the loop is
\* inside one try.
FetchExtension(o) ==
    /\ fmode = "main" /\ mpc = "chrome_ext"
    /\ o \in {Raised, Returned(1)}
    /\ fetchLog' = Logged(<<"chrome", idx>>, o)
    /\ raw_posts' = IF o = Raised THEN raw_posts
                    ELSE raw_posts \o PostsOf(<<"chrome", idx>>, 1)
    /\ srcErrors' = IF o = Raised THEN srcErrors \cup {"chrome"} ELSE srcErrors
    /\ IF o # Raised /\ idx < nExt
       THEN idx' = idx + 1 /\ UNCHANGED mpc
       ELSE idx' = 1 /\ mpc' = "check"
    /\ UNCHANGED <<fmode, nSub, nExt, gtask, all_posts>>
    /\ UNCHANGED <<retryVars, scoreVars, extractVars, moreVars, lateVars>>

\* main_v2.py:113-117
CheckPosts ==
    /\ fmode = "main" /\ mpc = "check"
    /\ mpc' = IF raw_posts = <<>> THEN "no_posts" ELSE "processing"
    /\ UNCHANGED <<fmode, idx, nSub, nExt, raw_posts, fetchLog, srcErrors,
                   gtask, all_posts>>
    /\ UNCHANGED <<retryVars, scoreVars, extractVars, moreVars, lateVars>>

\* reddit_scraper.py:151-152  asyncio.gather(*tasks, return_exceptions=True):
\* every task runs to its end, in any order, whatever the others do.
TaskSettles(i, o) ==
    /\ fmode = "gather" /\ mpc = "gathering"
    /\ i \in DOMAIN gtask /\ gtask[i] = Pending
    /\ gtask' = [gtask EXCEPT ![i] = o]
    /\ UNCHANGED <<fmode, mpc, idx, nSub, nExt, raw_posts, fetchLog, srcErrors,
                   all_posts>>
    /\ UNCHANGED <<retryVars, scoreVars, extractVars, moreVars, lateVars>>

RECURSIVE Collect(_, _)
\* reddit_scraper.py:154-160  the results in task order, exceptions skipped
Collect(res, i) ==
    IF i > Len(res) THEN <<>>
    ELSE (IF res[i] = Raised THEN <<>> ELSE PostsOf(<<"reddit", i>>, res[i].n))
         \o Collect(res, i + 1)

\* reddit_scraper.py:152-162  gather returns once every task has settled
GatherJoin ==
    /\ fmode = "gather" /\ mpc = "gathering"
    /\ \A i \in DOMAIN gtask : gtask[i] # Pending
    /\ all_posts' = Collect(gtask, 1)
    /\ mpc' = "joined"
    /\ UNCHANGED <<fmode, idx, nSub, nExt, raw_posts, fetchLog, srcErrors,
                   gtask>>
    /\ UNCHANGED <<retryVars, scoreVars, extractVars, moreVars, lateVars>>

NextFetch ==
    \/ \E o \in FetchResults : FetchSubreddit(o)
    \/ \E o \in FetchResults : FetchAsks(o)
    \/ \E o \in FetchResults : FetchAppReviews(o)
    \/ \E n \in 0..MaxExt : FetchTopExtensions(n)
    \/ \E o \in FetchResults : FetchExtension(o)
    \/ CheckPosts
    \/ \E i \in 1..MaxSub + 1, o \in FetchResults : TaskSettles(i, o)
    \/ GatherJoin

SpecFetch == InitFetch /\ [][NextFetch]_vars

\* The fetching stage of main is over.
FetchingDone == fmode = "main" /\ mpc \in {"check", "no_posts", "processing"}

\* How many posts of raw_posts come from selector sel / from source src.
PostsFrom(sel) == Cardinality({i \in DOMAIN raw_posts : raw_posts[i].sel = sel})
PostsFromSource(src) ==
    Cardinality({i \in DOMAIN raw_posts : raw_posts[i].sel[1] = src})

\* Every post a successful fetch returned is in raw_posts.
SucceededAllCollected ==
    \A sel \in Attempted :
        fetchLog[sel].st = "ok" => PostsFrom(sel) = fetchLog[sel].n

\* Every source is attempted, whatever happened to the sources before it.
EverySourceAttempted ==
    /\ \A src \in {"reddit", "producthunt", "appstore"} :
          \E sel \in Attempted : sel[1] = src
    /\ nExt > 0 => <<"chrome", 1>> \in Attempted

\* fetch_multiple_subreddits: every task was awaited, a failed subreddit
\* contributes nothing and a successful one all its posts.
GatherIsolated ==
    (fmode = "gather" /\ mpc = "joined") =>
        \A i \in DOMAIN gtask :
            /\ gtask[i] # Pending
            /\ Cardinality({j \in DOMAIN all_posts : all_posts[j].sel = <<"reddit", i>>})
                 = gtask[i].n

\* C3 (as claimed): when the fetching stage is over every source has been
\* attempted, a source whose fetch failed (a subreddit whose fetch raised, a
\* source whose except clause ran) has contributed zero posts, and every
\* post of a successful fetch is in raw_posts; likewise for the subreddits
\* of fetch_multiple_subreddits.
C3_SourceIsolation ==
    /\ FetchingDone =>
          /\ EverySourceAttempted
          /\ \A sel \in Attempted :
                fetchLog[sel] = Raised => PostsFrom(sel) = 0
          /\ \A src \in srcErrors : PostsFromSource(src) = 0
          /\ SucceededAllCollected
    /\ GatherIsolated

\* What does hold of C3: every source is attempted, the fetch call that
\* raised contributes nothing, every successful fetch contributes all its
\* posts, and fetch_multiple_subreddits isolates its subreddits.
C3_CallIsolation ==
    /\ FetchingDone =>
          /\ EverySourceAttempted
          /\ \A sel \in Attempted :
                fetchLog[sel] = Raised => PostsFrom(sel) = 0
          /\ SucceededAllCollected
    /\ GatherIsolated

\* C4 (as claimed): when the fetching stage is over every configured
\* selector (each subreddit, each app id, each extension id) has been
\* fetched, whichever other selectors raised, and only the posts of the
\* selectors that raised are missing.
C4_SelectorIsolation ==
    FetchingDone =>
        /\ Attempted = Selectors
        /\ SucceededAllCollected

(***************************************************************************)
(*                     ScoringEngine (src/scoring.py)                      *)
(***************************************************************************)

\* Scores are fixed-point: Unit stands for 1.0, Tenth for 0.1.
Unit == 30 * 100
Tenth == Unit \div 10

\* Bounds of the model.
MaxTicks == 2      \* the clock advances by at most this many days
MaxScorings == 2   \* score_post is called at most this many times on an input

\* The day the clock shows at the start.
Day0 == 40

\* scoring.py:26-28
gold_zone_min_opportunity == 70
gold_zone_min_demand == 50
gold_zone_max_supply == 30

\* dict.get(key, default)
Get(d, k, default) == IF k \in DOMAIN d THEN d[k] ELSE default

\* round(x, 1): the nearest tenth, halves to the even tenth.
Round1(x) ==
    LET q == x \div Tenth
        r == x % Tenth
    IN  IF 2 * r < Tenth THEN q * Tenth
        ELSE IF 2 * r > Tenth THEN (q + 1) * Tenth
        ELSE IF q % 2 = 0 THEN q * Tenth ELSE (q + 1) * Tenth

\* The post scores the model draws from.
ScoreVals == {0, 80, 150, 99999}

\* math.log10(post_score + 1) * 10 in Units, to the nearest Unit, tabulated
\* for ScoreVals and DemandScores: log10(1) = 0, log10(2) = 0.301030,
\* log10(10) = 1, log10(81) = 1.908485, log10(151) = 2.178977,
\* log10(152) = 2.181844, log10(100000) = 5.
Log10Times10(post_score) ==
    CASE post_score = 0 -> 0
      [] post_score = 1 -> 9031
      [] post_score = 9 -> 10 * Unit
      [] post_score = 80 -> 57255
      [] post_score = 150 -> 65369
      [] post_score = 151 -> 65455
      [] post_score = 99999 -> 50 * Unit

\* The demand score with the velocity term taken off: a faulty variant of
\* calculate_demand_score.
calculate_demand_score_velocity_penalty(post_score, sentiment, velocity) ==
    Round1(Log10Times10(post_score) + sentiment * 10 + (Unit - velocity) * 20)

\* scoring.py:30-48 with the final round left out: a faulty variant.
calculate_demand_score_unrounded(post_score, sentiment, velocity) ==
    Log10Times10(post_score) + sentiment * 10 + velocity * 20

\* scoring.py:30-48
calculate_demand_score(post_score, sentiment, velocity) ==
    Round1(Log10Times10(post_score) + sentiment * 10 + velocity * 20)

\* scoring.py:50-66  (avg_rating is in Units)
calculate_supply_score(app_count, avg_rating) ==
    Round1(app_count * 5 * Unit + avg_rating * 2)

\* scoring.py:68-81
calculate_opportunity_score(demand_score, supply_score) ==
    Round1(demand_score - supply_score)

\* The rule of the first-version scorer (demand >= 70 and supply <= 30) in
\* the place of scoring.py:99-101: a faulty variant of is_gold_zone.
is_gold_zone_v1(demand_score, supply_score, opportunity_score) ==
    /\ demand_score >= gold_zone_min_opportunity * Unit
    /\ supply_score <= gold_zone_max_supply * Unit

\* scoring.py:83-101
is_gold_zone(demand_score, supply_score, opportunity_score) ==
    /\ opportunity_score >= gold_zone_min_opportunity * Unit
    /\ demand_score >= gold_zone_min_demand * Unit
    /\ supply_score <= gold_zone_max_supply * Unit

\* The sentiment with the two increments not added up (0.8 when both flags
\* are set): a faulty variant of extract_sentiment_from_opportunity.
extract_sentiment_larger_increment(opportunity) ==
    LET base == Unit \div 2
    IN  IF Get(opportunity, "unmet_need", FALSE) THEN base + (3 * Unit) \div 10
        ELSE IF Get(opportunity, "monetizable", FALSE)
             THEN base + (2 * Unit) \div 10
             ELSE base

\* scoring.py:103-125  0.5, +0.3 if unmet_need, +0.2 if monetizable, at most 1.0
extract_sentiment_from_opportunity(opportunity) ==
    LET base == Unit \div 2
        s1 == IF Get(opportunity, "unmet_need", FALSE)
              THEN base + (3 * Unit) \div 10 ELSE base
        s2 == IF Get(opportunity, "monetizable", FALSE)
              THEN s1 + (2 * Unit) \div 10 ELSE s1
    IN  Min(Unit, s2)

Max(a, b) == IF a > b THEN a ELSE b

\* scoring.py:127-149  t is what datetime.now() returns during the call
calculate_velocity(created_at, comments_count, t) ==
    LET age_days == t - created_at
        recency_factor == Max(0, Unit - (age_days * Unit) \div 30)
        activity_factor == Min(Unit, (comments_count * Unit) \div 20)
    IN  (recency_factor * 7 + activity_factor * 3) \div 10

\* scoring.py:161-205  the five fields score_post computes for post p when
\* the clock shows t
ScoreFields(p, t) ==
    LET post_score == Get(p, "score", 0)
        created_at == Get(p, "created_at", t - 7)
        comments_count == Get(p, "comments_count", 0)
        opportunity == Get(p, "opportunity", <<>>)
        competitive_data == Get(p, "competitive_data", <<>>)
        app_count == Get(competitive_data, "app_count", 1)
        avg_rating == Get(competitive_data, "avg_rating", 3 * Unit)
        sentiment == extract_sentiment_from_opportunity(opportunity)
        velocity == calculate_velocity(created_at, comments_count, t)
        demand_score == calculate_demand_score(post_score, sentiment, velocity)
        supply_score == calculate_supply_score(app_count, avg_rating)
        opportunity_score == calculate_opportunity_score(demand_score, supply_score)
        is_gold == is_gold_zone(demand_score, supply_score, opportunity_score)
    IN  [demand_score |-> demand_score,
         supply_score |-> supply_score,
         opportunity_score |-> opportunity_score,
         gold_zone |-> is_gold,
         scoring_factors |-> [post_score |-> post_score, sentiment |-> sentiment,
                              velocity |-> velocity, app_count |-> app_count,
                              avg_rating |-> avg_rating]]

\* d with the keys of new set to new's values (d[k] = v for each of them)
Updated(d, new) == new @@ d

\* score_post that also writes the creation time it used back into the post:
\* a faulty variant of score_post.
score_post_stores_created_at(p, t) ==
    Updated(p, ScoreFields(p, t) @@ [created_at |-> Get(p, "created_at", t - 7)])

\* scoring.py:151-207  the dict score_post leaves behind and returns: the
\* object passed in, with the five fields set on it
score_post(p, t) == Updated(p, ScoreFields(p, t))

ScoreKeys == {"demand_score", "supply_score", "opportunity_score", "gold_zone",
              "scoring_factors"}

\* What is compared between two scorings.
Scores(p) == [demand_score |-> p.demand_score, supply_score |-> p.supply_score,
              opportunity_score |-> p.opportunity_score, gold_zone |-> p.gold_zone]

\* The posts handed to score_post: each optional key present or not.
OptCreated == {<<>>} \cup {[created_at |-> d] : d \in {Day0 - 35, Day0 - 2, Day0}}
OptComments == {<<>>} \cup {[comments_count |-> c] : c \in {12, 25}}
OptOpportunity ==
    {<<>>} \cup {[opportunity |-> [unmet_need |-> u, monetizable |-> m]] :
                    u \in BOOLEAN, m \in BOOLEAN}
\* avg_rating 0, 3.2 and 4.125 in Units
OptCompetitive ==
    {<<>>} \cup {[competitive_data |-> [app_count |-> a, avg_rating |-> r]] :
                    a \in {0, 2, 3}, r \in {0, 9600, 12375}}
InputPosts ==
    {[score |-> sc] @@ c @@ m @@ o @@ cd :
        sc \in ScoreVals, c \in OptCreated, m \in OptComments,
        o \in OptOpportunity, cd \in OptCompetitive}

InitScore ==
    /\ IdleRetry /\ IdleFetch /\ IdleExtract /\ IdleMore
    /\ now = Day0
    /\ post \in InputPosts
    /\ input0 = post
    /\ ret = <<>>
    /\ scorings = <<>>

\* score_post(post): the object is updated in place and returned.
ScorePost ==
    /\ Len(scorings) < MaxScorings
    /\ post' = score_post(post, now)
    /\ ret' = post'
    /\ scorings' = Append(scorings, Scores(post'))
    /\ UNCHANGED <<now, input0>>
    /\ UNCHANGED <<retryVars, fetchVars, extractVars, moreVars, lateVars>>

\* score_post on a fresh dict that equals the original input.
ScoreCopy ==
    /\ Len(scorings) >= 1 /\ Len(scorings) < MaxScorings
    /\ post' = score_post(input0, now)
    /\ ret' = post'
    /\ scorings' = Append(scorings, Scores(post'))
    /\ UNCHANGED <<now, input0>>
    /\ UNCHANGED <<retryVars, fetchVars, extractVars, moreVars, lateVars>>

\* A day passes.
Tick ==
    /\ now < Day0 + MaxTicks
    /\ now' = now + 1
    /\ UNCHANGED <<post, input0, ret, scorings>>
    /\ UNCHANGED <<retryVars, fetchVars, extractVars, moreVars, lateVars>>

NextScore ==
    \/ ScorePost
    \/ ScoreCopy
    \/ Tick

SpecScore == InitScore /\ [][NextScore]_vars

\* The post has been scored at least once.
Scored == Len(scorings) >= 1

\* C5: on every scored post the stored gold_zone flag is true exactly when
\* the stored opportunity_score is >= 70, the stored demand_score >= 50 and
\* the stored supply_score <= 30.
C5_GoldZoneIff ==
    Scored =>
        (ret.gold_zone <=>
            /\ ret.opportunity_score >= 70 * Unit
            /\ ret.demand_score >= 50 * Unit
            /\ ret.supply_score <= 30 * Unit)

\* C5 witness: a scored post in the gold zone whose opportunity_score is
\* exactly 70.
C5_Witness ==
    /\ Scored
    /\ ret.gold_zone
    /\ ret.opportunity_score = 70 * Unit

\* C6: on every scored post the three stored scores are whole tenths and the
\* stored opportunity_score is the stored demand_score minus the stored
\* supply_score.
C6_OpportunityIsDifference ==
    Scored =>
        /\ ret.demand_score % Tenth = 0
        /\ ret.supply_score % Tenth = 0
        /\ ret.opportunity_score % Tenth = 0
        /\ ret.opportunity_score = ret.demand_score - ret.supply_score

\* C6 witness: a scored post whose opportunity_score is negative and whose
\* unrounded supply score was not a whole tenth.
C6_Witness ==
    /\ Scored
    /\ ret.opportunity_score < 0
    /\ (ret.scoring_factors.avg_rating * 2) % Tenth # 0

\* C7 (as claimed): all scorings of the same input, whenever they were made,
\* give the same demand, supply and opportunity scores and the same
\* gold_zone flag.
C7_Deterministic ==
    \A i, j \in DOMAIN scorings : scorings[i] = scorings[j]

\* C8 (as claimed): after score_post the post object passed in holds exactly
\* the fields and values it held before the call.
C8_InputUntouched ==
    Scored => post = input0

\* C8 (amended): score_post changes the object passed in only by setting the
\* five score fields on it: every field the post held keeps its value, the
\* fields of the object are those and the five score fields, and the value
\* returned is that same updated object.
C8_OnlyScoreFieldsAdded ==
    Scored =>
        /\ DOMAIN post = DOMAIN input0 \cup ScoreKeys
        /\ \A k \in DOMAIN input0 : post[k] = input0[k]
        /\ ret = post

\* C8 witness: a post without a created_at field has been scored twice, a
\* day apart.
C8_Witness ==
    /\ Len(scorings) = 2
    /\ "created_at" \notin DOMAIN input0
    /\ "demand_score" \in DOMAIN post
    /\ now > Day0

(***************************************************************************)
(*            LLMExtractor.extract_opportunity (src/extractor.py)          *)
(*                                                                         *)
(* The extractor is the one main builds, LLMExtractor(): the prompt file   *)
(* it reads is the file the fallback extractor reads again, and is taken   *)
(* to be readable.                                                         *)
(***************************************************************************)

\* extractor.py:27-28
PRIMARY_MODEL == "gpt-3.5-turbo"
FALLBACK_MODEL == "gpt-3.5-turbo-instruct"

\* Bound of the model: the longest response text, in symbols.
MaxRespLen == 4

\* A response text is a string over five symbols: the two braces, "k" for
\* a member's `"key":`, "n" for a JSON scalar (null, a number, a string) and
\* "x" for text that is no JSON.
Alphabet == {"{", "}", "k", "n", "x"}
Texts == UNION {[1..n -> Alphabet] : n \in 0..MaxRespLen}

\* What a model call can do: raise (err = "api"), answer without content
\* (err = "nocontent": message.content is None), or answer with a text.
Responses ==
    {[err |-> e, text |-> <<>>] : e \in {"api", "nocontent"}}
    \cup {[err |-> "", text |-> t] : t \in Texts}

RECURSIVE IsJson(_)
\* json.loads(t) succeeds: t is a scalar, or an object with no member or one
\* member whose value is JSON.
IsJson(t) ==
    \/ t = <<"n">>
    \/ /\ Len(t) >= 2
       /\ t[1] = "{" /\ t[Len(t)] = "}"
       /\ \/ Len(t) = 2
          \/ Len(t) >= 4 /\ t[2] = "k" /\ IsJson(SubSeq(t, 3, Len(t) - 1))

\* Some part of the text is valid JSON.
ContainsJson(t) ==
    \E i, j \in 1..Len(t) : i <= j /\ IsJson(SubSeq(t, i, j))

\* str.find / str.rfind, 1-based, 0 when the symbol does not occur
Find(t, c) ==
    IF \E i \in 1..Len(t) : t[i] = c
    THEN CHOOSE i \in 1..Len(t) : t[i] = c /\ \A j \in 1..(i - 1) : t[j] # c
    ELSE 0
RFind(t, c) ==
    IF \E i \in 1..Len(t) : t[i] = c
    THEN CHOOSE i \in 1..Len(t) : t[i] = c /\ \A j \in (i + 1)..Len(t) : t[j] # c
    ELSE 0

Extracted(v) == [ok |-> TRUE, exc |-> "", json |-> v]
Raises(e) == [ok |-> FALSE, exc |-> e, json |-> <<>>]

\* extractor.py:86-97  the two-phase parse of the stripped content
ParseResult(t) ==
    IF IsJson(t) THEN Extracted(t)
    ELSE LET json_start == Find(t, "{")
             json_end == RFind(t, "}")
         IN  IF json_start # 0 /\ json_end # 0
             THEN LET json_str == SubSeq(t, json_start, json_end)
                  IN  IF IsJson(json_str) THEN Extracted(json_str)
                      ELSE Raises("JSONDecodeError")
             ELSE Raises("ValueError")

\* extractor.py:75-97  the body of the try: the model call and the parse
TryBody(resp) ==
    IF resp.err = "api" THEN Raises("APIError")
    ELSE IF resp.err = "nocontent" THEN Raises("AttributeError")
    ELSE ParseResult(resp.text)

\* An except clause that names json.JSONDecodeError only: a faulty variant
\* of Caught.
CaughtDecodeErrorOnly(e) == e = "JSONDecodeError"

\* extractor.py:99  `except Exception`: every error the try body raises
Caught(e) == e \in {"APIError", "AttributeError", "JSONDecodeError", "ValueError"}

\* A check that lets every model fall back: a faulty variant of IsPrimary.
IsAnyModel(m) == m \in {PRIMARY_MODEL, FALLBACK_MODEL}

\* extractor.py:103  `if self.model == PRIMARY_MODEL`
IsPrimary(m) == m = PRIMARY_MODEL

\* extractor.py:109-116  (title and pain_summary are Chinese string literals
\* in the source; they are given in English here)
SentinelOpportunity ==
    [title |-> "extraction failed",
     pain_summary |-> "no opportunity could be extracted from the post",
     unmet_need |-> FALSE,
     solo_doable |-> FALSE,
     monetizable |-> FALSE,
     tags |-> <<"extraction_failed">>]

\* The response holds no valid JSON anywhere, or the call itself failed.
NoJson(resp) == resp.err # "" \/ ~ContainsJson(resp.text)

InitExtract ==
    /\ IdleRetry /\ IdleFetch /\ IdleScore /\ IdleMore
    /\ xpc = "calling"
    /\ xmodel = PRIMARY_MODEL
    /\ xcalls = <<>>
    /\ xlast = [err |-> "", text |-> <<>>]
    /\ xresult = [kind |-> "none", value |-> <<>>]

\* extractor.py:75-95  the model answers and the answer parses: the parsed
\* value is returned (through the primary extractor when the fallback made
\* the call).
CallExtracts(resp) ==
    /\ xpc = "calling"
    /\ TryBody(resp).ok
    /\ xcalls' = Append(xcalls, [model |-> xmodel, failed |-> FALSE,
                                 noJson |-> NoJson(resp)])
    /\ xlast' = resp
    /\ xresult' = [kind |-> "parsed", value |-> TryBody(resp).json]
    /\ xpc' = "returned"
    /\ UNCHANGED xmodel
    /\ UNCHANGED <<retryVars, fetchVars, scoreVars, moreVars, lateVars>>

\* extractor.py:99-116  the try body raises: an error the except clause
\* misses leaves the function; otherwise the primary extractor hands over
\* to a fallback extractor and returns what that returns, and the fallback
\* extractor returns the sentinel.
CallFails(resp) ==
    /\ xpc = "calling"
    /\ ~TryBody(resp).ok
    /\ xcalls' = Append(xcalls, [model |-> xmodel, failed |-> TRUE,
                                 noJson |-> NoJson(resp)])
    /\ IF ~Caught(TryBody(resp).exc)
       THEN /\ xpc' = "raised"
            /\ xresult' = [kind |-> "exception", value |-> <<>>]
            /\ xlast' = resp
            /\ UNCHANGED xmodel
       ELSE IF IsPrimary(xmodel)
       THEN /\ xmodel' = FALLBACK_MODEL
            /\ UNCHANGED <<xpc, xresult, xlast>>
       ELSE /\ xpc' = "returned"
            /\ xresult' = [kind |-> "sentinel", value |-> SentinelOpportunity]
            /\ xlast' = resp
            /\ UNCHANGED xmodel
    /\ UNCHANGED <<retryVars, fetchVars, scoreVars, moreVars, lateVars>>

NextExtract ==
    \/ \E resp \in Responses : CallExtracts(resp)
    \/ \E resp \in Responses : CallFails(resp)

SpecExtract == InitExtract /\ [][NextExtract]_vars

C10_OneFallback ==
    /\ Len(xcalls) <= 2
    /\ Len(xcalls) >= 1 => xcalls[1].model = PRIMARY_MODEL
    /\ Len(xcalls) = 2 => xcalls[1].failed /\ xcalls[2].model = FALLBACK_MODEL
    /\ (xpc = "returned" /\ xcalls[1].failed) => Len(xcalls) = 2
    /\ (Len(xcalls) = 2 /\ xcalls[2].failed) => xpc = "returned"

\* C10 witness: both calls were made and both failed.
C10_Witness ==
    /\ xpc = "returned"
    /\ Len(xcalls) = 2
    /\ xcalls[2].failed

(***************************************************************************)
(*        One run of main (main_v2.py): imports, fetch, extract,           *)
(*        enrich, score                                                    *)
(*                                                                         *)
(* What the language model answers is a JSON value, and what json.loads    *)
(* makes of it is a Python object: it is written here as a record          *)
(* [t |-> its type, v |-> its content].                                    *)
(***************************************************************************)

\* extractor.py:31
BATCH_SIZE == 10

\* Bound of the model: a run collects at most this many posts.
MaxRunPosts == 2

JNull == [t |-> "null", v |-> <<>>]
JBool(b) == [t |-> "bool", v |-> b]
JStr(str) == [t |-> "str", v |-> str]
JList(items) == [t |-> "list", v |-> items]
JDict(members) == [t |-> "dict", v |-> members]

\* The dict literals of extractor.py:109-116 and 158-165, and the dicts of
\* that shape the model can answer.
OpportunityDict(title, summary, unmet, solo, monet, tags) ==
    JDict([title |-> JStr(title), pain_summary |-> JStr(summary),
           unmet_need |-> unmet, solo_doable |-> solo, monetizable |-> monet,
           tags |-> tags])

\* extractor.py:109-116 as a Python object
SentinelValue ==
    OpportunityDict(SentinelOpportunity.title, SentinelOpportunity.pain_summary,
                    JBool(SentinelOpportunity.unmet_need),
                    JBool(SentinelOpportunity.solo_doable),
                    JBool(SentinelOpportunity.monetizable),
                    JList(<<JStr(SentinelOpportunity.tags[1])>>))

\* extractor.py:158-165
ProcessingError ==
    OpportunityDict("processing error", "error while processing the post",
                    JBool(FALSE), JBool(FALSE), JBool(FALSE),
                    JList(<<JStr("processing_error")>>))

\* The values json.loads can return for an answer of the model: a
\* well-formed opportunity, one whose tags are null, an object with a title
\* only, null, and an array.
GoodOpportunity ==
    OpportunityDict("idea", "pain", JBool(TRUE), JBool(TRUE), JBool(TRUE),
                    JList(<<JStr("calendar")>>))
TagsNullOpportunity ==
    OpportunityDict("idea", "pain", JBool(TRUE), JBool(TRUE), JBool(TRUE), JNull)
TitleOnly == JDict([title |-> JStr("idea")])
ModelAnswers == {GoodOpportunity, TagsNullOpportunity, TitleOnly, JNull, JList(<<>>)}

\* What one extract_opportunity task ends with (extractor.py:58-116): it
\* returns json.loads of an answer, or the sentinel after both models
\* failed, or it raises (the prompt file the fallback extractor opens at
\* line 105 is gone).
TaskNone == [st |-> "none", value |-> JNull]
TaskPending == [st |-> "pending", value |-> JNull]
TaskReturned(j) == [st |-> "returned", value |-> j]
TaskRaised == [st |-> "raised", value |-> JNull]
TaskOutcomes ==
    {TaskReturned(j) : j \in ModelAnswers \cup {SentinelValue}} \cup {TaskRaised}

\* Python: isinstance(j, dict), j.get(k, default), bool(j), iter(j), hash(j)
IsDict(j) == j.t = "dict"
DictGet(j, k, default) == IF k \in DOMAIN j.v THEN j.v[k] ELSE default
Truthy(j) ==
    CASE j.t = "null" -> FALSE
      [] j.t = "bool" -> j.v
      [] j.t = "str" -> j.v # ""
      [] j.t = "list" -> Len(j.v) > 0
      [] j.t = "dict" -> DOMAIN j.v # {}
Iterable(j) == j.t \in {"str", "list", "dict"}
Hashable(j) == j.t \in {"null", "bool", "str"}

\* The posts the fetching stage can collect: each has a title and a score.
Titles == {"a", "b"}
RunScores == {0, 150}
RawPosts == [title : Titles, score : RunScores]
RawPostLists == UNION {[1..n -> RawPosts] : n \in 0..MaxRunPosts}

\* What search_competitors can find for a post (competitive.py:200-255):
\* no competitor, or three rated 3.2 on average.
CompetitiveResults ==
    {[app_count |-> 0, avg_rating |-> 0], [app_count |-> 3, avg_rating |-> 9600]}

\* Every post from i on, however many: a faulty variant of BatchOf.
RestOf(ps, i) == {j \in DOMAIN ps : j >= i}

\* posts[i:i+BATCH_SIZE], 1-based: the indices of the batch that starts at i
BatchOf(ps, i) == {j \in DOMAIN ps : j >= i /\ j < i + BATCH_SIZE}

\* extractor.py:133-148  a task is created for every post of the batch
WithTasksFor(ts, batch) ==
    [j \in DOMAIN ts |-> IF j \in batch THEN TaskPending ELSE ts[j]]

\* extractor.py:151-166  what awaiting a task stores in post["opportunity"]
Awaited(task) == IF task.st = "raised" THEN ProcessingError ELSE task.value

\* competitive.py:278-283  the statements of enrich_post_with_competitive_data
\* that can raise: opportunity.get (no dict), keywords.extend(tags) (tags not
\* iterable), set(keywords) (a tag that cannot be hashed)
EnrichRaises(p) ==
    /\ "opportunity" \in DOMAIN p
    /\ LET opportunity == p["opportunity"]
       IN  \/ ~IsDict(opportunity)
           \/ LET tags == DictGet(opportunity, "tags", JList(<<>>))
              IN  \/ ~Iterable(tags)
                  \/ tags.t = "list" /\ \E i \in DOMAIN tags.v : ~Hashable(tags.v[i])

\* scoring.py:171, 117-121  score_post raises when the opportunity has no
\* get method
ScoreRaises(p) == "opportunity" \in DOMAIN p /\ ~IsDict(p["opportunity"])

\* The post as score_post reads it: the two flags of the opportunity by
\* their truth value (scoring.py:117, 121).
ScoringView(p) ==
    IF "opportunity" \in DOMAIN p
    THEN [k \in DOMAIN p |->
            IF k = "opportunity"
            THEN [unmet_need |-> Truthy(DictGet(p[k], "unmet_need", JBool(FALSE))),
                  monetizable |-> Truthy(DictGet(p[k], "monetizable", JBool(FALSE)))]
            ELSE p[k]]
    ELSE p

\* scoring.py:195-207 on a post of the run
ScoredPost(p, t) == Updated(p, ScoreFields(ScoringView(p), t))

RECURSIVE InsertDesc(_, _)
\* p put into the list s, which is in non-increasing order of
\* opportunity_score, behind every post whose score is not smaller
InsertDesc(s, p) ==
    IF s = <<>> THEN <<p>>
    ELSE IF Head(s)["opportunity_score"] >= p["opportunity_score"]
         THEN <<Head(s)>> \o InsertDesc(Tail(s), p)
         ELSE <<p>> \o s

RECURSIVE SortDesc(_, _)
SortDesc(ps, acc) ==
    IF ps = <<>> THEN acc ELSE SortDesc(Tail(ps), InsertDesc(acc, Head(ps)))

\* The list left as it is: a faulty variant of SortedByOpportunity.
Unsorted(ps) == ps

\* scoring.py:222  sort(key=opportunity_score, reverse=True): stable
SortedByOpportunity(ps) == SortDesc(ps, <<>>)

\* An await that returns once one task of the batch has been awaited:
\* a faulty variant of BatchAwaited.
FirstAwaited(ps, i, k) == k >= i

\* extractor.py:151  the loop `for post, task in tasks` has awaited the task
\* at index k, the last of the batch that starts at i
BatchAwaited(ps, i, k) == \A j \in BatchOf(ps, i) : j <= k

InitRun ==
    /\ IdleBase /\ IdleEnrich /\ IdleNorm /\ IdleAdapter /\ IdleLate
    /\ key_set \in BOOLEAN
    /\ skip_gpt \in BOOLEAN
    /\ skip_competitive \in BOOLEAN
    /\ runpc = "import"
    /\ posts = <<>>
    /\ tasks = <<>>
    /\ bstart = 1
    /\ bawait = 1
    /\ eidx = 1
    /\ sidx = 1
    /\ stages = <<>>
    /\ scored_posts = <<>>

\* main_v2.py:24-31, extractor.py:19-21  the imports run before main: the
\* import of src.extractor raises ValueError when the key is not set
ImportModules ==
    /\ runpc = "import"
    /\ runpc' = IF key_set THEN "fetching" ELSE "import_failed"
    /\ UNCHANGED <<key_set, skip_gpt, skip_competitive, posts, tasks, bstart,
                   bawait, eidx, sidx, stages, scored_posts>>
    /\ UNCHANGED <<baseVars, enrichVars, normVars, adapterVars, lateVars>>

\* main_v2.py:59-117  the fetching stage collects rp; without a post the run
\* returns
FetchStage(rp) ==
    /\ runpc = "fetching"
    /\ posts' = rp
    /\ stages' = Append(stages, "fetch")
    /\ runpc' = IF rp = <<>> THEN "no_posts" ELSE "extract"
    /\ UNCHANGED <<key_set, skip_gpt, skip_competitive, tasks, bstart, bawait,
                   eidx, sidx, scored_posts>>
    /\ UNCHANGED <<baseVars, enrichVars, normVars, adapterVars, lateVars>>

\* main_v2.py:120-127, extractor.py:128-148  batch_extract is called and
\* creates the tasks of the first batch, or the stage is skipped
BeginExtract ==
    /\ runpc = "extract"
    /\ IF skip_gpt
       THEN /\ runpc' = "enrich"
            /\ UNCHANGED <<tasks, stages>>
       ELSE /\ runpc' = "extracting"
            /\ stages' = Append(stages, "extract")
            /\ tasks' = WithTasksFor([j \in DOMAIN posts |-> TaskNone],
                                     BatchOf(posts, 1))
    /\ bstart' = 1
    /\ bawait' = 1
    /\ UNCHANGED <<key_set, skip_gpt, skip_competitive, posts, eidx, sidx,
                   scored_posts>>
    /\ UNCHANGED <<baseVars, enrichVars, normVars, adapterVars, lateVars>>

\* extractor.py:145-147  a task that was created runs to its end, at any
\* time and in any order
ExtractTaskSettles(i, out) ==
    /\ runpc = "extracting"
    /\ i \in DOMAIN tasks /\ tasks[i] = TaskPending
    /\ tasks' = [tasks EXCEPT ![i] = out]
    /\ UNCHANGED <<key_set, skip_gpt, skip_competitive, runpc, posts, bstart,
                   bawait, eidx, sidx, stages, scored_posts>>
    /\ UNCHANGED <<baseVars, enrichVars, normVars, adapterVars, lateVars>>

\* extractor.py:151-168  one iteration of `for post, task in tasks`: the
\* task is awaited and its result stored on the post; behind the last task
\* of the batch the next batch is created, or batch_extract returns
AwaitTask ==
    /\ runpc = "extracting"
    /\ bawait \in DOMAIN tasks
    /\ tasks[bawait].st \in {"returned", "raised"}
    /\ posts' = [posts EXCEPT ![bawait] =
                    Updated(@, [opportunity |-> Awaited(tasks[bawait])])]
    /\ bawait' = bawait + 1
    /\ IF ~BatchAwaited(posts, bstart, bawait)
       THEN UNCHANGED <<runpc, tasks, bstart>>
       ELSE IF bstart + BATCH_SIZE <= Len(posts)
       THEN /\ bstart' = bstart + BATCH_SIZE
            /\ tasks' = WithTasksFor(tasks, BatchOf(posts, bstart + BATCH_SIZE))
            /\ UNCHANGED runpc
       ELSE /\ runpc' = "enrich"
            /\ UNCHANGED <<tasks, bstart>>
    /\ UNCHANGED <<key_set, skip_gpt, skip_competitive, eidx, sidx, stages,
                   scored_posts>>
    /\ UNCHANGED <<baseVars, enrichVars, normVars, adapterVars, lateVars>>

\* main_v2.py:130-137  batch_enrich_posts is called, or the stage is skipped
BeginEnrich ==
    /\ runpc = "enrich"
    /\ IF skip_competitive
       THEN runpc' = "score" /\ UNCHANGED stages
       ELSE runpc' = "enriching" /\ stages' = Append(stages, "enrich")
    /\ eidx' = 1
    /\ UNCHANGED <<key_set, skip_gpt, skip_competitive, posts, tasks, bstart,
                   bawait, sidx, scored_posts>>
    /\ UNCHANGED <<baseVars, enrichVars, normVars, adapterVars, lateVars>>

\* competitive.py:309-313, 257-295  one iteration of `for post in posts`:
\* an exception of enrich_post_with_competitive_data is caught nowhere
EnrichPost(cd) ==
    /\ runpc = "enriching"
    /\ eidx \in DOMAIN posts
    /\ IF EnrichRaises(posts[eidx])
       THEN /\ runpc' = "crashed"
            /\ UNCHANGED <<posts, eidx>>
       ELSE /\ posts' = [posts EXCEPT ![eidx] =
                            Updated(@, [competitive_data |-> cd])]
            /\ eidx' = eidx + 1
            /\ runpc' = IF eidx = Len(posts) THEN "score" ELSE "enriching"
    /\ UNCHANGED <<key_set, skip_gpt, skip_competitive, tasks, bstart, bawait,
                   sidx, stages, scored_posts>>
    /\ UNCHANGED <<baseVars, enrichVars, normVars, adapterVars, lateVars>>

\* main_v2.py:140-142  score_posts is called
BeginScore ==
    /\ runpc = "score"
    /\ runpc' = "scoring"
    /\ stages' = Append(stages, "score")
    /\ sidx' = 1
    /\ UNCHANGED <<key_set, skip_gpt, skip_competitive, posts, tasks, bstart,
                   bawait, eidx, scored_posts>>
    /\ UNCHANGED <<baseVars, enrichVars, normVars, adapterVars, lateVars>>

\* scoring.py:219-224  one element of the list comprehension: score_post on
\* the post; behind the last post the list is sorted and returned
ScorePostOfRun ==
    /\ runpc = "scoring"
    /\ sidx \in DOMAIN posts
    /\ IF ScoreRaises(posts[sidx])
       THEN /\ runpc' = "crashed"
            /\ UNCHANGED <<posts, sidx, scored_posts>>
       ELSE /\ posts' = [posts EXCEPT ![sidx] = ScoredPost(@, now)]
            /\ sidx' = sidx + 1
            /\ IF sidx = Len(posts)
               THEN /\ scored_posts' = SortedByOpportunity(posts')
                    /\ runpc' = "done"
               ELSE UNCHANGED <<runpc, scored_posts>>
    /\ UNCHANGED <<key_set, skip_gpt, skip_competitive, tasks, bstart, bawait,
                   eidx, stages>>
    /\ UNCHANGED <<baseVars, enrichVars, normVars, adapterVars, lateVars>>

NextRun ==
    \/ ImportModules
    \/ \E rp \in RawPostLists : FetchStage(rp)
    \/ BeginExtract
    \/ \E i \in 1..MaxRunPosts + 1, out \in TaskOutcomes : ExtractTaskSettles(i, out)
    \/ AwaitTask
    \/ BeginEnrich
    \/ \E cd \in CompetitiveResults : EnrichPost(cd)
    \/ BeginScore
    \/ ScorePostOfRun

SpecRun == InitRun /\ [][NextRun]_vars

\* The stage named st has been started.
StageStarted(st) == \E i \in DOMAIN stages : stages[i] = st

\* The position of a stage in the order of main.
StageRank(st) ==
    CASE st = "fetch" -> 1 [] st = "extract" -> 2 [] st = "enrich" -> 3
      [] st = "score" -> 4

\* batch_extract was called and has returned.
ExtractionOver == StageStarted("extract") /\ runpc # "extracting"

\* A structured Opportunity: a dict with the three boolean fields and a
\* list of tags.
IsOpportunity(j) ==
    /\ IsDict(j)
    /\ {"unmet_need", "solo_doable", "monetizable", "tags"} \subseteq DOMAIN j.v
    /\ \A k \in {"unmet_need", "solo_doable", "monetizable"} : j.v[k].t = "bool"
    /\ j.v["tags"].t = "list"

\* C11 (as claimed): after batch_extract every post carries an opportunity
\* that is a structured record with the boolean fields unmet_need,
\* solo_doable and monetizable and a list of tags, whatever the model
\* answered.
C11_OpportunityShape ==
    ExtractionOver =>
        \A i \in DOMAIN posts :
            /\ "opportunity" \in DOMAIN posts[i]
            /\ IsOpportunity(posts[i]["opportunity"])

\* What does hold of C11: after batch_extract every post has an opportunity
\* field, and the fallback values are structured records.
C11_OpportunityPresent ==
    /\ ExtractionOver => \A i \in DOMAIN posts : "opportunity" \in DOMAIN posts[i]
    /\ IsOpportunity(SentinelValue) /\ IsOpportunity(ProcessingError)

\* C13 (as claimed): a run that collected at least one post never ends with
\* an exception: no failure while extracting, enriching or scoring one post
\* reaches the top level, and when the run is done every post is scored.
C13_NoPostFailurePropagates ==
    /\ runpc # "crashed"
    /\ runpc = "no_posts" => posts = <<>>
    /\ runpc = "done" =>
          /\ Len(scored_posts) = Len(posts)
          /\ \A i \in DOMAIN posts : "opportunity_score" \in DOMAIN posts[i]

C15_NoDuplicateTitles ==
    runpc \in {"extract", "extracting", "enrich", "enriching", "score",
               "scoring", "done"} =>
        \A i, j \in DOMAIN posts : i # j => posts[i]["title"] # posts[j]["title"]

\* C16: the list score_posts returns, which the run ends with, is a
\* permutation of the posts it was given and is in non-increasing order of
\* opportunity_score.
C16_SortedPermutation ==
    runpc = "done" =>
        /\ Len(scored_posts) = Len(posts)
        /\ \E f \in Permutations(DOMAIN posts) :
              \A i \in DOMAIN posts : scored_posts[i] = posts[f[i]]
        /\ \A i, j \in DOMAIN scored_posts :
              i < j => scored_posts[i]["opportunity_score"]
                         >= scored_posts[j]["opportunity_score"]

\* C16 witness: two posts are returned in the reverse of their input order.
C16_Witness ==
    /\ runpc = "done"
    /\ Len(posts) = 2
    /\ scored_posts[1] = posts[2]
    /\ scored_posts[1]["opportunity_score"] > scored_posts[2]["opportunity_score"]

\* C20 (as claimed): with the key missing and extraction switched off the
\* run still starts: the imports succeed.
C20_RunStartsWithoutKey ==
    (~key_set /\ skip_gpt) => runpc # "import_failed"

(***************************************************************************)
(*   CompetitiveFetcher.enrich_post_with_competitive_data and the store    *)
(*   search it makes (src/competitive.py)                                  *)
(***************************************************************************)

\* Bound of the model: at most this many enrichment calls.
MaxEnrichCalls == 2

\* The hours at which a call can be made: the start, 23, 24 and 25 hours
\* later.
HourMarks == {0, 23, 24, 25}

\* The posts handed to enrichment: title.split() and the opportunity's tags.
EnrichPosts ==
    {[words |-> <<"need", "better", "calendar", "app">>, tags |-> <<"calendar">>],
     [words |-> <<"calendar", "need", "better">>, tags |-> <<>>],
     [words |-> <<"app">>, tags |-> <<>>],
     [words |-> <<"make", "notes", "sync", "with", "tasks", "fast">>,
      tags |-> <<"productivity", "notes">>]}

\* competitive.py:268-280  the words of the title longer than 3 characters,
\* and the tags
KeywordCandidates(p) ==
    {p.words[i] : i \in {j \in DOMAIN p.words : Len(p.words[j]) > 3}}
    \cup {p.tags[i] : i \in DOMAIN p.tags}

\* competitive.py:283-287  list(set(keywords))[:5] keeps five of the
\* candidates, whichever the set yields first; without a candidate the
\* keywords are app and tool.  The keyword lists a call can derive, as sets.
KeywordChoices(p) ==
    LET cands == KeywordCandidates(p)
    IN  IF cands = {} THEN {{"app", "tool"}}
        ELSE IF Cardinality(cands) <= 5 THEN {cands}
        ELSE {kw \in SUBSET cands : Cardinality(kw) = 5}

InitEnrich ==
    /\ IdleBase /\ IdleRun /\ IdleNorm /\ IdleAdapter /\ IdleLate
    /\ eclock = 0
    /\ ecalls = <<>>
    /\ searches = <<>>

\* competitive.py:257-295, 189-255  one enrichment call: the keywords are
\* derived and search_competitors searches the stores for them; nothing is
\* looked up in a cache and nothing is stored in one
EnrichCall(p, kw) ==
    /\ Len(ecalls) < MaxEnrichCalls
    /\ kw \in KeywordChoices(p)
    /\ ecalls' = Append(ecalls, [post |-> p, keywords |-> kw, at |-> eclock])
    /\ searches' = Append(searches, [call |-> Len(ecalls) + 1, keywords |-> kw,
                                     at |-> eclock])
    /\ UNCHANGED eclock
    /\ UNCHANGED <<baseVars, runVars, normVars, adapterVars, lateVars>>

\* Time passes until the next hour mark h.
HoursPass(h) ==
    /\ h \in HourMarks /\ h > eclock
    /\ eclock' = h
    /\ UNCHANGED <<ecalls, searches>>
    /\ UNCHANGED <<baseVars, runVars, normVars, adapterVars, lateVars>>

NextEnrich ==
    \/ \E p \in EnrichPosts : \E kw \in KeywordChoices(p) : EnrichCall(p, kw)
    \/ \E h \in HourMarks : HoursPass(h)

SpecEnrich == InitEnrich /\ [][NextEnrich]_vars

\* The call with index c issued a store search.
Searched(c) == \E i \in DOMAIN searches : searches[i].call = c

\* C12 (as claimed): a call whose derived keyword set equals that of an
\* earlier call made less than 24 hours before it issues no store search
\* (it is served from the cache); a call made 25 hours after the first does
\* search.
C12_SearchCached ==
    \A i, j \in DOMAIN ecalls :
        (i < j /\ ecalls[i].keywords = ecalls[j].keywords) =>
            /\ ecalls[j].at - ecalls[i].at < 24 => ~Searched(j)
            /\ ecalls[j].at - ecalls[i].at >= 25 => Searched(j)

\* What does hold of C12: every enrichment call issues its own search.
C12_EveryCallSearches ==
    \A j \in DOMAIN ecalls : Searched(j)

(***************************************************************************)
(*        The normalizing steps of search_ideas (analysis.py)              *)
(***************************************************************************)

\* Bound of the model: the searches yield at most this many submissions.
MaxFound == 2

\* len(title) and len(title.split()) of the titles of the model.
TitleLen(title) ==
    CASE title = "a" -> 40 [] title = "b" -> 200 [] title = "c" -> 30
      [] title = "d" -> 201
TitleWords(title) ==
    CASE title = "a" -> 6 [] title = "b" -> 5 [] title = "c" -> 4
      [] title = "d" -> 5

\* A submission a search yields: its title, its score, whether it is pinned
\* and its age in days.
Submissions ==
    [title : {"a", "b", "c", "d"}, score : {10, 20}, stickied : BOOLEAN,
     age : {5, 100}]

\* The submissions of one run, each with the url that tells it apart.
FoundLists(max) ==
    UNION {{[i \in 1..n |-> [sub |-> f[i], url |-> i]] : f \in [1..n -> Submissions]} :
              n \in 0..max}

\* analysis.py:129  `if not post.stickied and len(post.title) < 200`
PassesIntake(x) == ~x.sub.stickied /\ TitleLen(x.sub.title) < 200

\* analysis.py:130-137  the dict built for a submission
ResultOf(x) ==
    [title |-> x.sub.title, score |-> x.sub.score, url |-> x.url,
     age |-> x.sub.age]

RECURSIVE Collected(_)
\* analysis.py:124-138
Collected(xs) ==
    IF xs = <<>> THEN <<>>
    ELSE (IF PassesIntake(Head(xs)) THEN <<ResultOf(Head(xs))>> ELSE <<>>)
         \o Collected(Tail(xs))

RECURSIVE Dedup(_, _)
\* analysis.py:141-146  the loop over results with the set seen
Dedup(rs, seen) ==
    IF rs = <<>> THEN <<>>
    ELSE IF Head(rs).title \notin seen
         THEN <<Head(rs)>> \o Dedup(Tail(rs), seen \cup {Head(rs).title})
         ELSE Dedup(Tail(rs), seen)

\* analysis.py:159-161
PassesCleaning(r) == r.score >= 15 /\ r.age <= 90 /\ TitleWords(r.title) >= 5

RECURSIVE Cleaned(_)
\* analysis.py:158-161
Cleaned(rs) ==
    IF rs = <<>> THEN <<>>
    ELSE (IF PassesCleaning(Head(rs)) THEN <<Head(rs)>> ELSE <<>>)
         \o Cleaned(Tail(rs))

InitNormalize ==
    /\ IdleBase /\ IdleRun /\ IdleEnrich /\ IdleAdapter /\ IdleLate
    /\ npc = "searching"
    /\ found \in FoundLists(MaxFound)
    /\ results = <<>>
    /\ deduped = <<>>
    /\ filtered = <<>>

\* analysis.py:122-161
Normalize ==
    /\ npc = "searching"
    /\ results' = Collected(found)
    /\ deduped' = Dedup(results', {})
    /\ filtered' = Cleaned(deduped')
    /\ npc' = "normalized"
    /\ UNCHANGED found
    /\ UNCHANGED <<baseVars, runVars, enrichVars, adapterVars, lateVars>>

NextNormalize == Normalize

SpecNormalize == InitNormalize /\ [][NextNormalize]_vars

\* The index of the first post of list rs with title t (0 if there is none).
FirstWithTitle(rs, t) ==
    IF \E i \in DOMAIN rs : rs[i].title = t
    THEN CHOOSE i \in DOMAIN rs :
            rs[i].title = t /\ \A j \in 1..(i - 1) : rs[j].title # t
    ELSE 0

\* List xs is list rs with some posts left out: its posts are posts of rs,
\* each once, in the order of rs (a post is told by its url).
SubListOf(xs, rs) ==
    /\ \A i \in DOMAIN xs : \E j \in DOMAIN rs : xs[i] = rs[j]
    /\ \A i, j \in DOMAIN xs : i < j => xs[i].url < xs[j].url

\* The first post of list rs with title t that the cleaning does not drop.
FirstKeptWithTitle(rs, t) ==
    rs[CHOOSE i \in DOMAIN rs :
          /\ rs[i].title = t /\ PassesCleaning(rs[i])
          /\ \A j \in 1..(i - 1) : ~(rs[j].title = t /\ PassesCleaning(rs[j]))]

\* C17: de-duplication is by exact title and stable: for every title of which
\* the input list holds a post that no rule drops, the normalized output
\* keeps exactly one post, the first such post in input order, and the kept
\* posts are in input order.
C17_FirstOfTitleKept ==
    npc = "normalized" =>
        /\ \A i \in DOMAIN results :
              PassesCleaning(results[i]) =>
                  /\ Cardinality({k \in DOMAIN filtered :
                                     filtered[k].title = results[i].title}) = 1
                  /\ \E k \in DOMAIN filtered :
                        filtered[k] = FirstKeptWithTitle(results, results[i].title)
        /\ SubListOf(filtered, results)

\* What the code does keep (analysis.py:141-146): the list deduped holds, for
\* every title of results, exactly one post, the first of results, in the
\* order of results, and filtered is deduped with some posts left out.
C17_DedupStable ==
    npc = "normalized" =>
        /\ \A i \in DOMAIN results :
              /\ Cardinality({k \in DOMAIN deduped :
                                 deduped[k].title = results[i].title}) = 1
              /\ \E k \in DOMAIN deduped :
                    deduped[k] = results[FirstWithTitle(results, results[i].title)]
        /\ SubListOf(deduped, results)
        /\ SubListOf(filtered, deduped)

\* C34: the length filter drops a post only when its title exceeds 200
\* characters: a post that is not pinned is collected exactly when its title
\* has at most 200 characters (one of 200 is, one of 201 is not); the word
\* filter drops a title of fewer than 5 words and keeps one of 5.
C34_CeilingOf200Inclusive ==
    npc = "normalized" =>
        /\ \A i \in DOMAIN found :
              ~found[i].sub.stickied =>
                  ((TitleLen(found[i].sub.title) <= 200)
                      <=> \E k \in DOMAIN results : results[k].url = found[i].url)
        /\ \A k \in DOMAIN filtered : TitleWords(filtered[k].title) >= 5
        /\ \A k \in DOMAIN deduped :
              (deduped[k].score >= 15 /\ deduped[k].age <= 90
                  /\ TitleWords(deduped[k].title) >= 5)
                  => \E m \in DOMAIN filtered : filtered[m] = deduped[k]

\* What the code does instead (analysis.py:129): a title of 200 characters is
\* dropped already; a post that is not pinned is collected exactly when its
\* title has fewer than 200 characters.
C34_CeilingOf200Exclusive ==
    npc = "normalized" =>
        /\ \A i \in DOMAIN found :
              ~found[i].sub.stickied =>
                  ((TitleLen(found[i].sub.title) < 200)
                      <=> \E k \in DOMAIN results : results[k].url = found[i].url)
        /\ \A k \in DOMAIN filtered : TitleWords(filtered[k].title) >= 5
        /\ \A k \in DOMAIN deduped :
              (deduped[k].score >= 15 /\ deduped[k].age <= 90
                  /\ TitleWords(deduped[k].title) >= 5)
                  => \E m \in DOMAIN filtered : filtered[m] = deduped[k]

(***************************************************************************)
(*        One batch fetch of a source adapter (src/scrapers)               *)
(***************************************************************************)

\* Bounds of the model: the limit asked for and the number of items in the
\* endpoint's response.
MaxLimit == 27
MaxSupplied == 27

\* producthunt_scraper.py:144  `return discussions[:25]`
PH_MAX_DISCUSSIONS == 25

\* The keys of the dict the Reddit, Product Hunt and App Store adapters build.
RawPostFields ==
    {"id", "title", "content", "url", "source", "score", "created_date",
     "comment_count", "author", "metadata"}

\* chromestore_scraper.py:163-170  the dict of one extension of the top list
ExtensionFields == {"id", "name", "url", "rating", "users", "source"}

\* chromestore_scraper.py:375-383  the dict fetch_and_convert_to_raw_post builds
ChromeRawPostFields ==
    {"title", "content", "url", "score", "source", "metadata", "id"}

\* The dict built for item n of the response: its keys, and where its
\* created_date comes from ("source", "now", or "none" without the key).
\* reddit_scraper.py:111-112, producthunt_scraper.py:165-169,
\* appstore_scraper.py:147-153: the item's timestamp, else datetime.now().
RawPostOf(n, timed) ==
    [fields |-> RawPostFields, id |-> n,
     created |-> IF timed THEN "source" ELSE "now"]

ExtensionOf(n) == [fields |-> ExtensionFields, id |-> n, created |-> "none"]

ChromeRawPostOf(ext) ==
    [fields |-> ChromeRawPostFields, id |-> ext.id, created |-> "none"]

\* Python's xs[:k] for k >= 0.
Prefix(xs, k) == SubSeq(xs, 1, Min(k, Len(xs)))

\* The items of a response of n items, converted by Conv.
Converted(n, Conv(_)) == [i \in 1..n |-> Conv(i)]

InitAdapter ==
    /\ IdleBase /\ IdleRun /\ IdleEnrich /\ IdleNorm /\ IdleLate
    /\ apc = "call"
    /\ akind \in Adapters
    /\ alimit \in 0..MaxLimit
    /\ asupplied \in 0..MaxSupplied
    /\ aleading \in (IF akind = "appstore" THEN BOOLEAN ELSE {FALSE})
    /\ atimed \in (IF akind = "chromestore" THEN {FALSE} ELSE BOOLEAN)
    /\ aposts = <<>>
    /\ araw = <<>>

\* reddit_scraper.py:91-134  RedditScraper.fetch_subreddit_posts: the limit
\* goes into the URL (103); every child of the response is converted.
fetch_subreddit_posts ==
    /\ apc = "call" /\ akind = "reddit"
    /\ aposts' = Converted(asupplied, LAMBDA i : RawPostOf(i, atimed))
    /\ araw' = aposts'
    /\ apc' = "returned"
    /\ UNCHANGED <<akind, alimit, asupplied, aleading, atimed>>
    /\ UNCHANGED <<baseVars, runVars, enrichVars, normVars, lateVars>>

\* producthunt_scraper.py:102-206  extract_discussions_from_json keeps the
\* first 25 discussions (144); fetch_asks converts discussion_data[:limit].
fetch_asks ==
    /\ apc = "call" /\ akind = "producthunt"
    /\ LET discussion_data ==
              Prefix(Converted(asupplied, LAMBDA i : RawPostOf(i, atimed)),
                     PH_MAX_DISCUSSIONS)
       IN  aposts' = Prefix(discussion_data, alimit)
    /\ araw' = aposts'
    /\ apc' = "returned"
    /\ UNCHANGED <<akind, alimit, asupplied, aleading, atimed>>
    /\ UNCHANGED <<baseVars, runVars, enrichVars, normVars, lateVars>>

\* appstore_scraper.py:106-192  AppStoreScraper.fetch_app_reviews: the first
\* entry is skipped when it is the app's own (128-129); the entries are cut
\* to limit `if limit and limit < len(entries)` (132-133).
fetch_app_reviews ==
    /\ apc = "call" /\ akind = "appstore"
    /\ LET feed == (IF aleading THEN <<[im_name |-> TRUE, n |-> 0]>> ELSE <<>>)
                   \o [i \in 1..asupplied |-> [im_name |-> FALSE, n |-> i]]
           skipped == IF feed # <<>> /\ feed[1].im_name THEN Tail(feed) ELSE feed
           entries == IF alimit # 0 /\ alimit < Len(skipped)
                      THEN Prefix(skipped, alimit)
                      ELSE skipped
       IN  aposts' = [i \in DOMAIN entries |-> RawPostOf(entries[i].n, atimed)]
    /\ araw' = aposts'
    /\ apc' = "returned"
    /\ UNCHANGED <<akind, alimit, asupplied, aleading, atimed>>
    /\ UNCHANGED <<baseVars, runVars, enrichVars, normVars, lateVars>>

\* chromestore_scraper.py:102-185  ChromeStoreScraper.fetch_top_extensions:
\* the loop stops at limit results (175-176) and results[:limit] is returned.
fetch_top_extensions ==
    /\ apc = "call" /\ akind = "chromestore"
    /\ aposts' = Prefix(Converted(asupplied, ExtensionOf), alimit)
    /\ apc' = "returned"
    /\ UNCHANGED <<akind, alimit, asupplied, aleading, atimed, araw>>
    /\ UNCHANGED <<baseVars, runVars, enrichVars, normVars, lateVars>>

\* chromestore_scraper.py:343-385  fetch_and_convert_to_raw_post, for the
\* next extension of the list.
fetch_and_convert_to_raw_post ==
    /\ apc = "returned" /\ akind = "chromestore"
    /\ Len(araw) < Len(aposts)
    /\ araw' = Append(araw, ChromeRawPostOf(aposts[Len(araw) + 1]))
    /\ UNCHANGED <<apc, akind, alimit, asupplied, aleading, atimed, aposts>>
    /\ UNCHANGED <<baseVars, runVars, enrichVars, normVars, lateVars>>

NextAdapter ==
    \/ fetch_subreddit_posts
    \/ fetch_asks
    \/ fetch_app_reviews
    \/ fetch_top_extensions
    \/ fetch_and_convert_to_raw_post

SpecAdapter == InitAdapter /\ [][NextAdapter]_vars

\* C18: for every adapter and every limit >= 1, a batch fetch returns exactly
\* min(limit, number of items the endpoint supplied) posts.
C18_ReturnsMinOfLimitAndSupplied ==
    (apc = "returned" /\ alimit >= 1) =>
        Len(aposts) = Min(alimit, asupplied)

\* The adapters that do return min(limit, supplied) for limit >= 1: the App
\* Store's and the Chrome Web Store's; Product Hunt's does up to 25.
C18_TruncatingAdapters ==
    (apc = "returned" /\ alimit >= 1) =>
        /\ akind \in {"appstore", "chromestore"} =>
              Len(aposts) = Min(alimit, asupplied)
        /\ akind = "producthunt" =>
              Len(aposts) = Min(Min(alimit, asupplied), PH_MAX_DISCUSSIONS)
        /\ akind = "reddit" => Len(aposts) = asupplied

\* C37: fetch_app_reviews returns at most limit posts for every limit >= 0,
\* after the leading app-information entry is skipped; limit 0 is what a run
\* passes when its per-source limit is smaller than the number of app ids.
C37_AtMostLimitReviews ==
    (apc = "returned" /\ akind = "appstore") =>
        /\ Len(aposts) <= alimit
        /\ \A i \in DOMAIN aposts : aposts[i].id # 0

\* What does hold of C37: at most limit posts for every limit >= 1, and every
\* supplied review for limit 0; the leading entry is never returned.
C37_LimitZeroReturnsAll ==
    (apc = "returned" /\ akind = "appstore") =>
        /\ alimit >= 1 => Len(aposts) = Min(alimit, asupplied)
        /\ alimit = 0 => Len(aposts) = asupplied
        /\ \A i \in DOMAIN aposts : aposts[i].id # 0

\* C19: every post an adapter emits has the RawPost fields id, title,
\* content, url, source, score, created_date, comment_count, author and
\* metadata, and its creation timestamp is populated (the ingestion time
\* when the source has none).
C19_SameRawPostShape ==
    \A i \in DOMAIN araw :
        /\ araw[i].fields = RawPostFields
        /\ araw[i].created \in {"source", "now"}

\* The three adapters that do emit that shape.
C19_ShapeOfFeedAdapters ==
    akind # "chromestore" =>
        \A i \in DOMAIN araw :
            /\ araw[i].fields = RawPostFields
            /\ araw[i].created = (IF atimed THEN "source" ELSE "now")

(***************************************************************************)
(*        CompetitiveFetcher.search_competitors (src/competitive.py)       *)
(*                                                                         *)
(*  Ratings are in tenths (45 stands for 4.5).  A store id is a number;    *)
(*  0 stands for the empty id, which `if comp_id and ...` takes as false.  *)
(***************************************************************************)

\* Bounds of the model: the lengths of the two stores' answers.
MaxExts == 12
MaxApps == 2

\* competitive.py:253  unique_competitors[:10]
TOP_COMPETITORS == 10
\* competitive.py:224  fetch_top_extensions(limit=100)
TOP_EXTENSIONS_LIMIT == 100

Platforms == {"appstore", "chromestore", "all"}

\* The methods class AppStoreScraper defines (appstore_scraper.py:26-222).
AppStoreScraperMethods ==
    {"fetch_with_retry", "fetch_app_details", "fetch_app_reviews",
     "fetch_app_rating_trend"}

\* The id, the rating and the name of extension i of a top list, by pattern.
ExtId(ip, i) ==
    CASE ip = "distinct" -> i
      [] ip = "pairs" -> (i + 1) \div 2
      [] ip = "blank_first" -> i - 1
ExtRating(rp, i) ==
    CASE rp = "mixed" -> (i * 17) % 51
      [] rp = "flat" -> 45
      [] rp = "falling" -> 50 - 3 * i
ExtNamed(mp, i) ==
    CASE mp = "all" -> TRUE
      [] mp = "odd" -> i % 2 = 1
      [] mp = "none" -> FALSE

\* The top lists of the model; named: the name contains one of the keywords
\* (competitive.py:228-229).
ExtLists(kw) ==
    {[i \in 1..n |-> [id |-> ExtId(ip, i), rating |-> ExtRating(rp, i),
                      named |-> ExtNamed(mp, i), store |-> "chromestore"]] :
        n \in 0..MaxExts,
        ip \in {"distinct", "pairs", "blank_first"},
        rp \in {"mixed", "flat", "falling"},
        mp \in IF kw THEN {"all", "odd", "none"} ELSE {"none"}}

\* What the App Store holds for the keywords.
AppLists(kw) ==
    {[i \in 1..n |-> [id |-> 100 + i, rating |-> 40 + i, named |-> TRUE,
                      store |-> "appstore"]] :
        n \in IF kw THEN 0..MaxApps ELSE {0}}

\* self.client after `async with Scraper(client=self.client)` is left:
\* __aexit__ closes the client the scraper holds (appstore_scraper.py:50-52,
\* chromestore_scraper.py:57-59), which is the fetcher's when it has one.
AfterScraper(client) == IF client = "open" THEN "closed" ELSE client

RECURSIVE Matching(_)
\* competitive.py:227-230
Matching(exts) ==
    IF exts = <<>> THEN <<>>
    ELSE (IF Head(exts).named THEN <<Head(exts)>> ELSE <<>>) \o Matching(Tail(exts))

\* The list left as it is: a faulty variant of UniqueCompetitors.
NotDeduplicated(cs, unique_ids) == cs

RECURSIVE UniqueCompetitors(_, _)
\* competitive.py:235-242
UniqueCompetitors(cs, unique_ids) ==
    IF cs = <<>> THEN <<>>
    ELSE IF Head(cs).id # 0 /\ Head(cs).id \notin unique_ids
         THEN <<Head(cs)>>
              \o UniqueCompetitors(Tail(cs), unique_ids \cup {Head(cs).id})
         ELSE UniqueCompetitors(Tail(cs), unique_ids)

RECURSIVE TotalRating(_)
\* competitive.py:248
TotalRating(cs) ==
    IF cs = <<>> THEN 0 ELSE Head(cs).rating + TotalRating(Tail(cs))

\* competitive.py:249  round(total_rating / len(...), 1), in tenths.  The
\* quotient of two floats that lies half way between two tenths goes to
\* either of them, as the binary value falls.
RoundedMeans(total, n) ==
    LET q == total \div n
        r == total % n
    IN  IF 2 * r < n THEN {q} ELSE IF 2 * r > n THEN {q + 1} ELSE {q, q + 1}

RECURSIVE InsertByRating(_, _)
InsertByRating(s, c) ==
    IF s = <<>> THEN <<c>>
    ELSE IF Head(s).rating >= c.rating
         THEN <<Head(s)>> \o InsertByRating(Tail(s), c)
         ELSE <<c>> \o s

RECURSIVE SortedByRating(_, _)
\* competitive.py:252  sort(key=rating, reverse=True): stable
SortedByRating(cs, acc) ==
    IF cs = <<>> THEN acc
    ELSE SortedByRating(Tail(cs), InsertByRating(acc, Head(cs)))

InitSearch ==
    /\ IdleEarly /\ IdleBatch /\ IdleDemand /\ IdlePipe /\ IdleCache /\ IdleClient /\ IdleVelocity /\ IdleKeywords /\ IdleGold /\ IdleCreated /\ IdleMatrix
    /\ spc = "appstore"
    /\ splatform \in Platforms
    /\ skw \in BOOLEAN
    /\ sclient \in {"none", "open"}
    /\ sapps \in AppLists(skw)
    /\ sexts \in ExtLists(skw)
    /\ spage \in {"ok", "error"}
    /\ competitors = <<>>
    /\ sresult = [app_count |-> 0, avg_rating |-> 0, competitors |-> <<>>]

\* competitive.py:209-217  the App Store block.  scraper.search_apps is not
\* a method of AppStoreScraper: with a keyword to search for, the call raises
\* AttributeError, which the except of line 216 catches.
SearchAppStore ==
    /\ spc = "appstore"
    /\ IF splatform \in {"appstore", "all"}
       THEN /\ competitors' =
                  IF skw /\ "search_apps" \in AppStoreScraperMethods
                  THEN competitors \o sapps
                  ELSE competitors
            /\ sclient' = AfterScraper(sclient)
       ELSE UNCHANGED <<competitors, sclient>>
    /\ spc' = "chromestore"
    /\ UNCHANGED <<splatform, skw, sapps, sexts, spage, sresult>>
    /\ UNCHANGED <<earlyVars, batchVars, demandVars, pipeVars, cacheVars, clientVars, velocityVars, keywordVars, goldVars, createdVars, matrixVars>>

\* competitive.py:219-232  the Chrome Web Store block.  fetch_top_extensions
\* returns [] when its request fails (chromestore_scraper.py:181-185), as it
\* does on a client that has been closed.
SearchChromeStore ==
    /\ spc = "chromestore"
    /\ IF splatform \in {"chromestore", "all"}
       THEN /\ LET extensions ==
                       IF spage = "error" \/ sclient = "closed" THEN <<>>
                       ELSE Prefix(sexts, TOP_EXTENSIONS_LIMIT)
               IN  competitors' = competitors \o Matching(extensions)
            /\ sclient' = AfterScraper(sclient)
       ELSE UNCHANGED <<competitors, sclient>>
    /\ spc' = "aggregate"
    /\ UNCHANGED <<splatform, skw, sapps, sexts, spage, sresult>>
    /\ UNCHANGED <<earlyVars, batchVars, demandVars, pipeVars, cacheVars, clientVars, velocityVars, keywordVars, goldVars, createdVars, matrixVars>>

\* competitive.py:234-255
Aggregate ==
    /\ spc = "aggregate"
    /\ LET unique_competitors == UniqueCompetitors(competitors, {})
           n == Len(unique_competitors)
       IN  \E avg \in (IF n = 0 THEN {0}
                       ELSE RoundedMeans(TotalRating(unique_competitors), n)) :
               sresult' = [app_count |-> n,
                           avg_rating |-> avg,
                           competitors |->
                               Prefix(SortedByRating(unique_competitors, <<>>),
                                      TOP_COMPETITORS)]
    /\ spc' = "done"
    /\ UNCHANGED <<splatform, skw, sclient, sapps, sexts, spage, competitors>>
    /\ UNCHANGED <<earlyVars, batchVars, demandVars, pipeVars, cacheVars, clientVars, velocityVars, keywordVars, goldVars, createdVars, matrixVars>>

NextSearch ==
    \/ SearchAppStore
    \/ SearchChromeStore
    \/ Aggregate

SpecSearch == InitSearch /\ [][NextSearch]_vars

\* The positions of list cs that hold the first competitor of a store id.
FirstOfId(cs) ==
    {i \in DOMAIN cs : cs[i].id # 0 /\ \A j \in 1..(i - 1) : cs[j].id # cs[i].id}

\* The sum of the ratings at the positions I of cs.
RECURSIVE RatingSum(_, _)
RatingSum(cs, I) ==
    IF I = {} THEN 0
    ELSE LET i == CHOOSE k \in I : TRUE
         IN  cs[i].rating + RatingSum(cs, I \ {i})

C27_BothStoresSearched ==
    (spc = "done" /\ splatform = "all") =>
        LET U == FirstOfId(competitors)
            Counted(c) == c.id # 0 => \E u \in U : competitors[u].id = c.id
        IN  /\ \A i \in DOMAIN sapps : Counted(sapps[i])
            /\ spage = "ok" =>
                  \A i \in DOMAIN sexts : sexts[i].named => Counted(sexts[i])
            /\ sresult.app_count = Cardinality(U)

\* What does hold of a search over all platforms: when the fetcher has no
\* client of its own and the top list arrives, the extensions whose name
\* contains a keyword are counted; no App Store app ever is.
C27_ExtensionsOnly ==
    (spc = "done" /\ splatform = "all") =>
        /\ \A i \in DOMAIN competitors : competitors[i].store = "chromestore"
        /\ (spage = "ok" /\ sclient = "none") =>
              \A i \in DOMAIN sexts :
                  (sexts[i].named /\ sexts[i].id # 0) =>
                      \E u \in FirstOfId(competitors) :
                          competitors[u].id = sexts[i].id

(***************************************************************************)
(*     LLMExtractor.batch_extract on a list longer than one batch          *)
(*     (src/extractor.py)                                                  *)
(***************************************************************************)

\* Bound of the model: batch_extract is given at most this many posts.
MaxBatchPosts == 12

\* The extraction calls that raise, by pattern.
FailingPatterns == {"none", "second", "last"}
CallRaises(pat, i, n) ==
    CASE pat = "none" -> FALSE
      [] pat = "second" -> i = 2
      [] pat = "last" -> i = n

\* A task of batch_extract: not created, running, or completed with the
\* opportunity extracted from text `from` or with an exception.
NotCreated == [st |-> "none", from |-> 0]
Running(i) == [st |-> "pending", from |-> i]
Completed(pat, i, n) ==
    [st |-> IF CallRaises(pat, i, n) THEN "raised" ELSE "returned", from |-> i]

\* An await that does not wait for the task: a faulty variant of Settled.
NeverWaits(task) == TRUE

\* `await task` returns or raises once the task has completed.
Settled(task) == task.st \in {"returned", "raised"}

\* extractor.py:153-166  the post with the opportunity set on it: the value
\* the task returned, or the processing_error dict when the await raised
WithOpportunity(i, task) ==
    [id |-> i,
     opportunity |-> IF task.st = "raised"
                     THEN [kind |-> "processing_error", from |-> i]
                     ELSE [kind |-> task.st, from |-> task.from]]

InitBatch ==
    /\ IdleEarly /\ IdleSearch /\ IdleDemand /\ IdlePipe /\ IdleCache /\ IdleClient /\ IdleVelocity /\ IdleKeywords /\ IdleGold /\ IdleCreated /\ IdleMatrix
    /\ batchpc = "create"
    /\ nposts \in 0..MaxBatchPosts
    /\ failing \in FailingPatterns
    /\ btasks = [i \in 1..nposts |-> NotCreated]
    /\ batch_i = 1
    /\ nawaited = 0
    /\ overtaken = FALSE
    /\ bresults = <<>>

\* extractor.py:128-148  one pass of `for i in range(0, len(posts),
\* BATCH_SIZE)` up to the first await: the tasks of the batch are created.
CreateBatchTasks ==
    /\ batchpc = "create"
    /\ IF batch_i > nposts
       THEN /\ batchpc' = "done"
            /\ UNCHANGED btasks
       ELSE /\ btasks' = [j \in 1..nposts |->
                             IF j \in BatchOf(btasks, batch_i)
                             THEN Running(j) ELSE btasks[j]]
            /\ batchpc' = "await"
    /\ UNCHANGED <<nposts, failing, batch_i, nawaited, overtaken, bresults>>
    /\ UNCHANGED <<earlyVars, searchVars, demandVars, pipeVars, cacheVars, clientVars, velocityVars, keywordVars, goldVars, createdVars, matrixVars>>

\* A running extraction call completes: it returns its opportunity or raises.
ExtractionCompletes(j) ==
    /\ batchpc = "await"
    /\ btasks[j].st = "pending"
    /\ btasks' = [btasks EXCEPT ![j] = Completed(failing, j, nposts)]
    /\ overtaken' = (overtaken \/ \E k \in 1..(j - 1) : btasks[k].st = "pending")
    /\ UNCHANGED <<batchpc, nposts, failing, batch_i, nawaited, bresults>>
    /\ UNCHANGED <<earlyVars, searchVars, demandVars, pipeVars, cacheVars, clientVars, velocityVars, keywordVars, goldVars, createdVars, matrixVars>>

\* extractor.py:151-166  one pass of `for post, task in tasks`; after the
\* last task of the batch the outer loop goes on.
AwaitBatchTask ==
    /\ batchpc = "await"
    /\ LET k == nawaited + 1
       IN  /\ Settled(btasks[k])
           /\ bresults' = Append(bresults, WithOpportunity(k, btasks[k]))
           /\ nawaited' = k
           /\ IF \A j \in BatchOf(btasks, batch_i) : j <= k
              THEN /\ batch_i' = batch_i + BATCH_SIZE
                   /\ batchpc' = "create"
              ELSE UNCHANGED <<batch_i, batchpc>>
    /\ UNCHANGED <<nposts, failing, btasks, overtaken>>
    /\ UNCHANGED <<earlyVars, searchVars, demandVars, pipeVars, cacheVars, clientVars, velocityVars, keywordVars, goldVars, createdVars, matrixVars>>

NextBatch ==
    \/ CreateBatchTasks
    \/ \E j \in 1..nposts : ExtractionCompletes(j)
    \/ AwaitBatchTask

SpecBatch == InitBatch /\ [][NextBatch]_vars

\* The group (batch) of post j, from 0.
GroupOf(j) == (j - 1) \div BATCH_SIZE

\* C22: batch_extract returns the posts it was given, as many and in the
\* same order, each with the opportunity produced from its own text (or the
\* processing_error of its own call), whatever the order in which the
\* calls completed; while it runs, results is the list of the posts awaited.
C22_InputOrderKept ==
    /\ Len(bresults) = nawaited
    /\ \A k \in DOMAIN bresults :
          /\ bresults[k].id = k
          /\ bresults[k].opportunity.from = k
          /\ bresults[k].opportunity.kind =
                (IF CallRaises(failing, k, nposts)
                 THEN "processing_error" ELSE "returned")
    /\ batchpc = "done" => Len(bresults) = nposts

\* C22 witness: batch_extract has returned a list of more than one batch,
\* one call had raised, and a call had completed before an earlier one.
C22_Witness ==
    /\ batchpc = "done"
    /\ nposts > BATCH_SIZE
    /\ Len(bresults) = nposts
    /\ overtaken
    /\ failing = "second"

\* C25: extraction calls are issued in groups of at most 10: at most 10
\* calls are pending at any moment, and a call of a later group is created
\* only when every call of the groups before it has completed.
C25_GroupsOfTen ==
    /\ Cardinality({j \in DOMAIN btasks : btasks[j].st = "pending"}) <= 10
    /\ \A i, j \in DOMAIN btasks :
          (GroupOf(i) < GroupOf(j) /\ btasks[j].st # "none") =>
              btasks[i].st \in {"returned", "raised"}

\* C25 witness: the calls of the second group are pending, and the 10 calls
\* of the first group have completed.
C25_Witness ==
    /\ nposts > BATCH_SIZE
    /\ \A j \in DOMAIN btasks :
          IF GroupOf(j) = 0 THEN btasks[j].st \in {"returned", "raised"}
          ELSE btasks[j].st = "pending"

(***************************************************************************)
(*        The worked examples of the scoring rules (src/scoring.py)        *)
(***************************************************************************)

\* scoring.py:251-266  the first test post of main: score 150, two days
\* old, 25 comments, unmet_need and monetizable, 3 apps rated 3.2
Example1 ==
    [score |-> 150, created_at |-> Day0 - 2, comments_count |-> 25,
     opportunity |-> [unmet_need |-> TRUE, monetizable |-> TRUE],
     competitive_data |-> [app_count |-> 3, avg_rating |-> (32 * Unit) \div 10]]

\* Example1 has been scored on the day the clock started with.
Example1Scored == Scored /\ input0 = Example1 /\ now = Day0

\* x is y to within one tenth.
About(x, y) == x - y <= Tenth /\ y - x <= Tenth

\* C24: example 1 (post_score 150, both flags set, 2 days old, 25 comments,
\* 3 apps rated 3.2) is scored with sentiment 0.8, velocity 0.91,
\* demand_score about 46.99, supply_score 21.4, opportunity_score about 25.6
\* and gold_zone false.
C24_Example1AsStated ==
    Example1Scored =>
        /\ ret.scoring_factors.sentiment = (8 * Unit) \div 10
        /\ About(ret.scoring_factors.velocity * 10, (91 * Unit) \div 10)
        /\ About(ret.demand_score, (4699 * Unit) \div 100)
        /\ ret.supply_score = (214 * Unit) \div 10
        /\ About(ret.opportunity_score, (256 * Unit) \div 10)
        /\ ~ret.gold_zone

\* C24 as the code computes it: example 1 is scored with sentiment 1.0
\* (0.5 + 0.3 + 0.2), velocity 0.953 ((1 - 2/30) * 0.7 + 0.3), demand_score
\* 50.9, supply_score 21.4, opportunity_score 29.5 and gold_zone false.
C24_Example1 ==
    Example1Scored =>
        /\ ret.scoring_factors.sentiment = Unit
        /\ ret.scoring_factors.velocity = (286 * Unit) \div 300
        /\ ret.demand_score = (509 * Unit) \div 10
        /\ ret.supply_score = (214 * Unit) \div 10
        /\ ret.opportunity_score = (295 * Unit) \div 10
        /\ ~ret.gold_zone

\* C24 witness: example 1 has been scored, with demand_score 50.9.
C24_Witness == Example1Scored /\ ret.demand_score = (509 * Unit) \div 10

(***************************************************************************)
(*     ScoringEngine.calculate_demand_score, argument by argument          *)
(*     (src/scoring.py)                                                    *)
(***************************************************************************)

\* The arguments the model draws from: post scores >= 0, sentiments and
\* velocities in [0, 1] (in Units), some of them next to each other.
DemandScores == {0, 1, 9, 80, 150, 151, 99999}
Sentiments == {0, 1, 15, Unit \div 2, (8 * Unit) \div 10, Unit}
Velocities == {0, 7, 8, Unit \div 2, (91 * Unit) \div 100, Unit}

InitDemand ==
    /\ IdleEarly /\ IdleSearch /\ IdleBatch /\ IdlePipe /\ IdleCache /\ IdleClient /\ IdleVelocity /\ IdleKeywords /\ IdleGold /\ IdleCreated /\ IdleMatrix
    /\ d_post_score \in DemandScores
    /\ d_sentiment \in Sentiments
    /\ d_velocity \in Velocities
    /\ d_score = calculate_demand_score(d_post_score, d_sentiment, d_velocity)
    /\ d_before = d_score
    /\ d_raised = "none"

\* calculate_demand_score is called again with a larger post_score.
RaisePostScore(x) ==
    /\ d_raised # "off" /\ x > d_post_score
    /\ d_post_score' = x
    /\ d_score' = calculate_demand_score(x, d_sentiment, d_velocity)
    /\ d_before' = d_score
    /\ d_raised' = "post_score"
    /\ UNCHANGED <<d_sentiment, d_velocity>>
    /\ UNCHANGED <<earlyVars, searchVars, batchVars, pipeVars, cacheVars, clientVars, velocityVars, keywordVars, goldVars, createdVars, matrixVars>>

\* calculate_demand_score is called again with a larger sentiment.
RaiseSentiment(x) ==
    /\ d_raised # "off" /\ x > d_sentiment
    /\ d_sentiment' = x
    /\ d_score' = calculate_demand_score(d_post_score, x, d_velocity)
    /\ d_before' = d_score
    /\ d_raised' = "sentiment"
    /\ UNCHANGED <<d_post_score, d_velocity>>
    /\ UNCHANGED <<earlyVars, searchVars, batchVars, pipeVars, cacheVars, clientVars, velocityVars, keywordVars, goldVars, createdVars, matrixVars>>

\* calculate_demand_score is called again with a larger velocity.
RaiseVelocity(x) ==
    /\ d_raised # "off" /\ x > d_velocity
    /\ d_velocity' = x
    /\ d_score' = calculate_demand_score(d_post_score, d_sentiment, x)
    /\ d_before' = d_score
    /\ d_raised' = "velocity"
    /\ UNCHANGED <<d_post_score, d_sentiment>>
    /\ UNCHANGED <<earlyVars, searchVars, batchVars, pipeVars, cacheVars, clientVars, velocityVars, keywordVars, goldVars, createdVars, matrixVars>>

NextDemand ==
    \/ \E x \in DemandScores : RaisePostScore(x)
    \/ \E x \in Sentiments : RaiseSentiment(x)
    \/ \E x \in Velocities : RaiseVelocity(x)

SpecDemand == InitDemand /\ [][NextDemand]_vars

\* C23: demand_score is non-decreasing in each of post_score, sentiment and
\* velocity, the other two fixed, for post_score >= 0 and sentiment and
\* velocity in [0, 1], after the rounding to one decimal: a call with one
\* argument raised never returns less than the call before it.
C23_DemandMonotone ==
    /\ d_before <= d_score
    /\ d_score % Tenth = 0

\* C23 witness: the velocity was raised and the rounded demand_score went up.
C23_Witness ==
    /\ d_raised = "velocity"
    /\ d_score > d_before

\* The sentiment was raised by so little that the rounded demand_score
\* stayed the same.
C23_WitnessRounded ==
    /\ d_raised = "sentiment"
    /\ d_score = d_before

(***************************************************************************)
(*     A post from its adapter to score_post (scrapers, extractor.py,      *)
(*     competitive.py, scoring.py)                                         *)
(***************************************************************************)

\* reddit_scraper.py:114-130, producthunt_scraper.py:188-202,
\* appstore_scraper.py:173-188  the RawPost an adapter builds from an item
\* created on day `created` with `comments` comments: Product Hunt and the
\* App Store set comment_count to 0.
AdapterPost(src, score, created, comments) ==
    [id |-> "p1", title |-> "a", content |-> "c", url |-> "u", source |-> src,
     score |-> score, created_date |-> created,
     comment_count |-> IF src = "reddit" THEN comments ELSE 0,
     author |-> "w", metadata |-> <<>>]

FetchedPosts ==
    {AdapterPost(src, sc, cr, cm) :
        src \in {"reddit", "producthunt", "appstore"}, sc \in {80, 150},
        cr \in {Day0 - 35, Day0 - 7, Day0 - 2, Day0}, cm \in {0, 12, 25}}

InitPipe ==
    /\ IdleEarly /\ IdleSearch /\ IdleBatch /\ IdleDemand /\ IdleCache /\ IdleClient /\ IdleVelocity /\ IdleKeywords /\ IdleGold /\ IdleCreated /\ IdleMatrix
    /\ pipepc = "fetched"
    /\ fetched \in FetchedPosts
    /\ piped = fetched

\* extractor.py:153-155 and competitive.py:290-293  extraction sets
\* post["opportunity"] and enrichment sets post["competitive_data"]; no
\* other key is written.
ExtractAndEnrich(o, cd) ==
    /\ pipepc = "fetched"
    /\ piped' = Updated(piped, o @@ cd)
    /\ pipepc' = "enriched"
    /\ UNCHANGED fetched
    /\ UNCHANGED <<earlyVars, searchVars, batchVars, demandVars, cacheVars, clientVars, velocityVars, keywordVars, goldVars, createdVars, matrixVars>>

\* scoring.py:151-207  score_post on the post
ScoreFetchedPost ==
    /\ pipepc = "enriched"
    /\ piped' = score_post(piped, Day0)
    /\ pipepc' = "scored"
    /\ UNCHANGED fetched
    /\ UNCHANGED <<earlyVars, searchVars, batchVars, demandVars, cacheVars, clientVars, velocityVars, keywordVars, goldVars, createdVars, matrixVars>>

NextPipe ==
    \/ \E o \in OptOpportunity \ {<<>>}, cd \in OptCompetitive \ {<<>>} :
          ExtractAndEnrich(o, cd)
    \/ ScoreFetchedPost

SpecPipe == InitPipe /\ [][NextPipe]_vars

\* C26: the velocity score_post uses for a fetched post is computed from the
\* creation timestamp and the comment count the adapter recorded, not from
\* the defaults (7 days old, 0 comments).
C26_VelocityFromAdapterFields ==
    pipepc = "scored" =>
        piped.scoring_factors.velocity =
            calculate_velocity(fetched.created_date, fetched.comment_count, Day0)

\* What score_post does use for a fetched post: the defaults; every fetched
\* post gets the velocity of a post 7 days old with no comments.
C26_DefaultVelocity ==
    pipepc = "scored" =>
        /\ "created_at" \notin DOMAIN piped
        /\ "comments_count" \notin DOMAIN piped
        /\ piped.scoring_factors.velocity = calculate_velocity(Day0 - 7, 0, Day0)

(***************************************************************************)
(*     The file cache of get_app_store_rating_trend and                    *)
(*     get_chrome_store_stats (src/competitive.py)                         *)
(*                                                                         *)
(*  The calls are coroutines of one event loop: a call runs without        *)
(*  interruption from one await to the next.  Time is in hours.            *)
(***************************************************************************)

\* Bound of the model: the number of calls.
MaxCacheCalls == 2

\* competitive.py:72, 154  timedelta(days=1), in hours
CACHE_HOURS == 24

\* The hours the clock of the model shows.
CacheHourMarks == {0, 1, 23, 24, 25}

\* competitive.py:67, 149  the cache file of a call: one for the rating
\* trend of an app id, one for the stats of an extension id
CacheKeys == {"appstore_1_trend", "chromestore_1_stats"}

\* A cache file: absent, or the entry written at hour at by call `by` (0: a
\* run before this one) with the data fetched then.
NoEntry == [present |-> FALSE, cached_at |-> 0, by |-> 0]
Entry(t, c) == [present |-> TRUE, cached_at |-> t, by |-> c]

\* What a call returns: the data of an entry, or the default result of
\* lines 76-82 and 158-164.
DataOf(entry) == [kind |-> "data", at |-> entry.cached_at, by |-> entry.by]
DefaultResult == [kind |-> "default", at |-> 0, by |-> 0]

\* An expiry test that takes an entry exactly 24 hours old as fresh: a faulty
\* variant of Fresh.
FreshInclusive(entry, t) == entry.present /\ entry.cached_at >= t - CACHE_HOURS

\* An expiry test that never finds an entry fresh: a faulty variant of Fresh.
NeverFresh(entry, t) == FALSE

\* competitive.py:68-72, 150-154  the file exists and
\* cached_at > datetime.now() - timedelta(days=1)
Fresh(entry, t) == entry.present /\ entry.cached_at > t - CACHE_HOURS

\* A failed fetch that stores the default result: a faulty variant of
\* AfterFailure.
DefaultStored(file, k, t, c) == [file EXCEPT ![k] = Entry(t, c)]

\* competitive.py:134-136, 185-187  the cache files after a fetch that
\* raised: the except branch returns result and writes nothing
AfterFailure(file, k, t, c) == file

\* competitive.py:126-130, 177-181  the cache files after a fetch that
\* succeeded: the file of the key is written anew
AfterSuccess(file, k, t, c) == [file EXCEPT ![k] = Entry(t, c)]

InitCache ==
    /\ IdleEarly /\ IdleSearch /\ IdleBatch /\ IdleDemand /\ IdlePipe /\ IdleClient /\ IdleVelocity /\ IdleKeywords /\ IdleGold /\ IdleCreated /\ IdleMatrix
    /\ cclock = 0
    /\ cfile \in [CacheKeys -> {NoEntry, Entry(0, 0)}]
    /\ ccalls = <<>>
    /\ cwrites = <<>>
    /\ crequests = 0

\* competitive.py:66-84, 148-166  a call for key k runs up to its first
\* await: it returns the data of a fresh entry, or it goes on to fetch.
CallStarts(k) ==
    /\ Len(ccalls) < MaxCacheCalls
    /\ ccalls' = Append(ccalls,
                        [key |-> k, started |-> cclock, seen |-> cfile[k],
                         pc |-> IF Fresh(cfile[k], cclock) THEN "hit" ELSE "fetching",
                         requests |-> 0, wrote |-> FALSE,
                         returned |-> IF Fresh(cfile[k], cclock)
                                      THEN DataOf(cfile[k]) ELSE DefaultResult])
    /\ UNCHANGED <<cclock, cfile, cwrites, crequests>>
    /\ UNCHANGED <<earlyVars, searchVars, batchVars, demandVars, pipeVars, clientVars, velocityVars, keywordVars, goldVars, createdVars, matrixVars>>

\* competitive.py:86-132, 168-183  the fetch of call c succeeds: the result
\* is filled in, written to the cache file and returned.
FetchSucceeds(c) ==
    /\ c \in DOMAIN ccalls /\ ccalls[c].pc = "fetching"
    /\ LET k == ccalls[c].key
       IN  /\ cfile' = AfterSuccess(cfile, k, cclock, c)
           /\ cwrites' = Append(cwrites, [key |-> k, by |-> c, at |-> cclock,
                                          over |-> cfile[k]])
           /\ ccalls' = [ccalls EXCEPT ![c].pc = "fetched",
                                       ![c].requests = 1,
                                       ![c].wrote = TRUE,
                                       ![c].returned = DataOf(Entry(cclock, c))]
    /\ crequests' = crequests + 1
    /\ UNCHANGED cclock
    /\ UNCHANGED <<earlyVars, searchVars, batchVars, demandVars, pipeVars, clientVars, velocityVars, keywordVars, goldVars, createdVars, matrixVars>>

\* competitive.py:134-136, 185-187  the fetch of call c raises: the default
\* result is returned.
FetchFails(c) ==
    /\ c \in DOMAIN ccalls /\ ccalls[c].pc = "fetching"
    /\ LET k == ccalls[c].key
           after == AfterFailure(cfile, k, cclock, c)
       IN  /\ cfile' = after
           /\ cwrites' = IF after = cfile THEN cwrites
                         ELSE Append(cwrites, [key |-> k, by |-> c, at |-> cclock,
                                               over |-> cfile[k]])
           /\ ccalls' = [ccalls EXCEPT ![c].pc = "failed",
                                       ![c].requests = 1,
                                       ![c].wrote = (after # cfile),
                                       ![c].returned = DefaultResult]
    /\ crequests' = crequests + 1
    /\ UNCHANGED cclock
    /\ UNCHANGED <<earlyVars, searchVars, batchVars, demandVars, pipeVars, clientVars, velocityVars, keywordVars, goldVars, createdVars, matrixVars>>

\* Time passes until the next hour mark h.
CacheHoursPass(h) ==
    /\ h \in CacheHourMarks /\ h > cclock
    /\ cclock' = h
    /\ UNCHANGED <<cfile, ccalls, cwrites, crequests>>
    /\ UNCHANGED <<earlyVars, searchVars, batchVars, demandVars, pipeVars, clientVars, velocityVars, keywordVars, goldVars, createdVars, matrixVars>>

NextCache ==
    \/ \E k \in CacheKeys : CallStarts(k)
    \/ \E c \in 1..MaxCacheCalls : FetchSucceeds(c)
    \/ \E c \in 1..MaxCacheCalls : FetchFails(c)
    \/ \E h \in CacheHourMarks : CacheHoursPass(h)

SpecCache == InitCache /\ [][NextCache]_vars

\* The store requests the calls have made.
RequestsOfCalls(n) == Cardinality({c \in 1..n : ccalls[c].requests = 1})

\* C28: the cache honours a hit only when the entry of the key was written
\* less than 24 hours before: such a call returns the cached data without a
\* store request; a call that finds no entry, or one 24 hours old or older,
\* fetches, and on success the file holds the new data and a new timestamp.
C28_HitOnlyWithin24Hours ==
    /\ crequests = RequestsOfCalls(Len(ccalls))
    /\ \A c \in DOMAIN ccalls :
          LET call == ccalls[c]
              young == call.seen.present /\ call.started - call.seen.cached_at < 24
          IN  /\ young =>
                    /\ call.pc = "hit"
                    /\ call.requests = 0
                    /\ ~call.wrote
                    /\ call.returned = DataOf(call.seen)
              /\ ~young =>
                    /\ call.pc \in {"fetching", "fetched", "failed"}
                    /\ call.pc = "fetched" =>
                          /\ call.requests = 1
                          /\ call.returned.kind = "data" /\ call.returned.by = c
                          /\ \E w \in DOMAIN cwrites :
                                /\ cwrites[w].by = c /\ cwrites[w].key = call.key
                                /\ cwrites[w].at = call.returned.at

\* C28 witness: a call found an entry 23 hours old and returned its data;
\* an hour later a call found it exactly 24 hours old, fetched, and replaced
\* it.
C28_Witness ==
    /\ Len(ccalls) = 2
    /\ ccalls[1].pc = "hit"
    /\ ccalls[1].started - ccalls[1].seen.cached_at = 23
    /\ ccalls[2].pc = "fetched" /\ ccalls[2].seen.present
    /\ ccalls[2].key = ccalls[1].key
    /\ ccalls[2].started - ccalls[2].seen.cached_at = 24
    /\ cfile[ccalls[2].key] = Entry(24, 2)

\* C29: a cache entry is immutable while fresh: no call overwrites an entry
\* that is less than 24 hours old, under every interleaving of the calls.
C29_FreshEntryNeverOverwritten ==
    \A w \in DOMAIN cwrites :
        ~(cwrites[w].over.present /\ cwrites[w].at - cwrites[w].over.cached_at < 24)

\* C29 as the code has it: a call that finds a fresh entry when it starts
\* writes nothing; a call that found none writes when its fetch succeeds,
\* also over an entry a concurrent call has written meanwhile; after every
\* write the file holds the one complete entry of the last writer.
C29_LastWriterWins ==
    /\ \A c \in DOMAIN ccalls :
          (ccalls[c].seen.present
              /\ ccalls[c].started - ccalls[c].seen.cached_at < 24) =>
                  /\ ~ccalls[c].wrote
                  /\ \A w \in DOMAIN cwrites : cwrites[w].by # c
    /\ \A w \in DOMAIN cwrites :
          LET o == cwrites[w].over
          IN  (o.present /\ cwrites[w].at - o.cached_at < 24) =>
                  /\ o.by # 0 /\ o.by # cwrites[w].by
                  /\ ccalls[cwrites[w].by].started <= o.cached_at
    /\ \A k \in CacheKeys :
          LET W == {w \in DOMAIN cwrites : cwrites[w].key = k}
          IN  W # {} =>
                  LET last == CHOOSE w \in W : \A v \in W : v <= w
                  IN  cfile[k] = Entry(cwrites[last].at, cwrites[last].by)

\* C29 witness: two concurrent calls for the same key both wrote it; the
\* second write replaced the fresh entry of the first.
C29_Witness ==
    /\ Len(cwrites) = 2
    /\ cwrites[1].key = cwrites[2].key
    /\ cwrites[2].over = Entry(cwrites[1].at, cwrites[1].by)
    /\ cfile[cwrites[2].key] = Entry(cwrites[2].at, cwrites[2].by)

\* C30: when the store fetch of a call fails, the call returns the default
\* result and writes nothing to the cache: no entry is created and an
\* expired one is not replaced; as long as no other call writes the key, it
\* holds no fresh entry, so the next call for it fetches again.
C30_FailureLeavesCache ==
    \A c \in DOMAIN ccalls :
        ccalls[c].pc = "failed" =>
            /\ ccalls[c].returned = DefaultResult
            /\ ~ccalls[c].wrote
            /\ \A w \in DOMAIN cwrites : cwrites[w].by # c
            /\ cfile[ccalls[c].key] = ccalls[c].seen =>
                  ~Fresh(cfile[ccalls[c].key], cclock)

\* C30 witness: the fetch failed on a key with an expired entry, the entry
\* is still there, and the next call for the key is fetching.
C30_Witness ==
    /\ Len(ccalls) = 2
    /\ ccalls[1].pc = "failed"
    /\ ccalls[1].seen.present
    /\ cfile[ccalls[1].key] = ccalls[1].seen
    /\ ccalls[2].key = ccalls[1].key
    /\ ccalls[2].pc = "fetching"

(***************************************************************************)
(*     The HTTP client a CompetitiveFetcher hands to the scrapers          *)
(*     (src/competitive.py, src/scrapers/appstore_scraper.py,              *)
(*      src/scrapers/chromestore_scraper.py)                               *)
(***************************************************************************)

\* Bound of the model: the number of store calls of one fetcher.
MaxClientCalls == 3

\* The two calls that fetch through a scraper, and what the store answers a
\* request that reaches it.
StoreCalls == {"get_app_store_rating_trend", "get_chrome_store_stats"}
StoreAnswers == {"ok", "error"}

\* competitive.py:47-50  CompetitiveFetcher.__aenter__: a client is created
\* when none was supplied
FetcherEntered(client) == IF client = "none" THEN "open" ELSE client

\* competitive.py:51-53  CompetitiveFetcher.__aexit__
FetcherExited(client) == IF client # "none" THEN "closed" ELSE client

\* appstore_scraper.py:45-48, chromestore_scraper.py:52-56  __aenter__ of a
\* scraper built with client=self.client: the client the scraper works with
\* and whether the scraper created it
ScraperEntered(client) ==
    IF client = "none" THEN [client |-> "open", created |-> TRUE]
    ELSE [client |-> client, created |-> FALSE]

\* appstore_scraper.py:50-52, chromestore_scraper.py:58-60  __aexit__ of a
\* scraper: `if self.client is not None: await self.client.aclose()`, the
\* client it holds, whoever created it
ScraperExited(scraper) == "closed"

\* appstore_scraper.py:76-78, chromestore_scraper.py:86-93  a request through
\* the client: a closed client raises (a RuntimeError, which the retry loop
\* does not catch), an open one gets the answer of the store
Requested(client, answer) == IF client = "open" THEN answer ELSE "raised"

InitClient ==
    /\ IdleEarly /\ IdleSearch /\ IdleBatch /\ IdleDemand /\ IdlePipe /\ IdleCache /\ IdleVelocity /\ IdleKeywords /\ IdleGold /\ IdleCreated /\ IdleMatrix
    /\ kpc = "new"
    /\ kclient \in {"none", "open"}
    /\ kcalls = <<>>

\* competitive.py:47-50  `async with CompetitiveFetcher(...) as fetcher`
FetcherEnters ==
    /\ kpc = "new"
    /\ kpc' = "entered"
    /\ kclient' = FetcherEntered(kclient)
    /\ UNCHANGED kcalls
    /\ UNCHANGED <<earlyVars, searchVars, batchVars, demandVars, pipeVars, cacheVars, velocityVars, keywordVars, goldVars, createdVars, matrixVars>>

\* competitive.py:84-136, 166-187  one call that misses the cache: the
\* scraper is entered with the client of the fetcher, makes its request and
\* is exited; the fetcher and the scraper hold the same client object when
\* the fetcher supplied one.
StoreCall(call, answer) ==
    /\ kpc \in {"new", "entered"}
    /\ Len(kcalls) < MaxClientCalls
    /\ LET scraper == ScraperEntered(kclient)
           got == Requested(scraper.client, answer)
           after == ScraperExited(scraper)
       IN  /\ kcalls' = Append(kcalls,
                   [call |-> call, answer |-> answer, within |-> kpc = "entered",
                    supplied |-> ~scraper.created, met |-> scraper.client,
                    returned |-> IF got = "ok" THEN "data" ELSE "default",
                    left |-> IF scraper.created THEN kclient ELSE after])
           /\ kclient' = IF scraper.created THEN kclient ELSE after
    /\ UNCHANGED kpc
    /\ UNCHANGED <<earlyVars, searchVars, batchVars, demandVars, pipeVars, cacheVars, velocityVars, keywordVars, goldVars, createdVars, matrixVars>>

\* competitive.py:51-53  the end of the `async with` block of the fetcher
FetcherExits ==
    /\ kpc = "entered"
    /\ kpc' = "exited"
    /\ kclient' = FetcherExited(kclient)
    /\ UNCHANGED kcalls
    /\ UNCHANGED <<earlyVars, searchVars, batchVars, demandVars, pipeVars, cacheVars, velocityVars, keywordVars, goldVars, createdVars, matrixVars>>

NextClient ==
    \/ FetcherEnters
    \/ \E call \in StoreCalls, answer \in StoreAnswers : StoreCall(call, answer)
    \/ FetcherExits

SpecClient == InitClient /\ [][NextClient]_vars

\* C31: a client the caller supplies to a scraper stays open when the
\* scraper's context exits: every call made inside an entered fetcher leaves
\* the client of the fetcher open, so a later call whose request the store
\* answers returns the fetched data.
C31_SuppliedClientStaysOpen ==
    \A c \in DOMAIN kcalls :
        kcalls[c].within =>
            /\ kcalls[c].supplied
            /\ kcalls[c].left = "open"
            /\ (kcalls[c].answer = "ok" => kcalls[c].returned = "data")

\* What the code does instead: the first call of an entered fetcher closes
\* the client, and every later call returns the default result.
C31_FirstCallClosesClient ==
    \A c \in DOMAIN kcalls :
        kcalls[c].supplied =>
            /\ kcalls[c].left = "closed"
            /\ (c > 1 /\ kcalls[c - 1].supplied) => kcalls[c].returned = "default"

(***************************************************************************)
(*              calculate_velocity (src/scoring.py)                        *)
(***************************************************************************)

\* The creation days of the model, relative to the first day of the clock:
\* before it, on it and after it.
CreatedOffsets == {0 - 45, 0 - 30, 0 - 29, 0 - 15, 0 - 1, 0, 1, 2, 30}

\* The comment counts of the model.
CommentCounts == {0, 10, 20, 21, 400}

InitVelocity ==
    /\ IdleEarly /\ IdleSearch /\ IdleBatch /\ IdleDemand /\ IdlePipe /\ IdleCache /\ IdleClient /\ IdleKeywords /\ IdleGold /\ IdleCreated /\ IdleMatrix
    /\ vpc = "call"
    /\ vnow = Day0
    /\ vcreated \in {Day0 + d : d \in CreatedOffsets}
    /\ vcomments \in CommentCounts
    /\ vvelocity = 0

\* scoring.py:127-149  the call, made when the clock shows vnow
VelocityReturns ==
    /\ vpc = "call"
    /\ vvelocity' = calculate_velocity(vcreated, vcomments, vnow)
    /\ vpc' = "returned"
    /\ UNCHANGED <<vnow, vcreated, vcomments>>
    /\ UNCHANGED <<earlyVars, searchVars, batchVars, demandVars, pipeVars, cacheVars, clientVars, keywordVars, goldVars, createdVars, matrixVars>>

\* A day passes before the call is made.
VelocityDayPasses ==
    /\ vpc = "call"
    /\ vnow < Day0 + MaxTicks
    /\ vnow' = vnow + 1
    /\ UNCHANGED <<vpc, vcreated, vcomments, vvelocity>>
    /\ UNCHANGED <<earlyVars, searchVars, batchVars, demandVars, pipeVars, cacheVars, clientVars, keywordVars, goldVars, createdVars, matrixVars>>

NextVelocity ==
    \/ VelocityReturns
    \/ VelocityDayPasses

SpecVelocity == InitVelocity /\ [][NextVelocity]_vars

\* C33: calculate_velocity returns a value in [0,1] for every creation time,
\* before, at or after the clock, and every comment count >= 0: 0.7 times a
\* recency that falls linearly from 1 at age 0 to 0 at 30 days and beyond,
\* plus 0.3 times min(1, comments/20).
C33_VelocityInUnitInterval ==
    vpc = "returned" =>
        LET age == vnow - vcreated
            recency == IF age >= 30 THEN 0
                       ELSE IF age <= 0 THEN Unit
                       ELSE Unit - (age * Unit) \div 30
            activity == IF vcomments >= 20 THEN Unit ELSE (vcomments * Unit) \div 20
        IN  /\ vvelocity >= 0
            /\ vvelocity <= Unit
            /\ vvelocity = (7 * recency + 3 * activity) \div 10

\* What does hold of C33: the value is in [0,1] and follows the formula for
\* every creation time that is not ahead of the clock.
C33_VelocityOfPastPosts ==
    (vpc = "returned" /\ vcreated <= vnow) =>
        LET age == vnow - vcreated
            recency == IF age >= 30 THEN 0 ELSE Unit - (age * Unit) \div 30
            activity == IF vcomments >= 20 THEN Unit ELSE (vcomments * Unit) \div 20
        IN  /\ vvelocity >= 0
            /\ vvelocity <= Unit
            /\ vvelocity = (7 * recency + 3 * activity) \div 10

(***************************************************************************)
(*   The keyword derivation of enrich_post_with_competitive_data           *)
(*   (src/competitive.py)                                                  *)
(*                                                                         *)
(*  list(set(keywords)) lists a set of strings in the order of their       *)
(*  hashes; the hash of a string depends on a seed the interpreter draws   *)
(*  when it starts, so the order is fixed within a run of the program and  *)
(*  differs between runs.                                                  *)
(***************************************************************************)

\* Bound of the model: the number of derivations.
MaxKeywordCalls == 2

\* The words of the model; the hash of a word is taken from its place here.
Vocabulary ==
    <<"need", "better", "calendar", "app", "make", "notes", "sync", "with",
      "tasks", "fast", "productivity", "tool">>
PlaceOf(w) == CHOOSE i \in DOMAIN Vocabulary : Vocabulary[i] = w

\* The hash seeds of the model, and the hash of a word under a seed (a
\* bijection on the vocabulary for every seed).
HashSeeds == {1, 2, 5}
HashModulus == Len(Vocabulary) + 1
HashOf(w, seed) == (PlaceOf(w) * seed) % HashModulus

\* The posts handed to the derivation: title.split() and the opportunity's
\* tags.
KeywordPosts ==
    {[words |-> <<"need", "better", "calendar", "app">>, tags |-> <<"calendar">>],
     [words |-> <<"app">>, tags |-> <<>>],
     [words |-> <<"make", "notes", "sync", "with", "tasks", "fast">>,
      tags |-> <<"productivity", "notes">>],
     [words |-> <<>>, tags |-> <<"tool", "app">>],
     [words |-> <<"fast", "fast", "app">>, tags |-> <<>>]}

\* competitive.py:272-275  [word for word in words if len(word) > 3]
RECURSIVE LongWords(_)
LongWords(words) ==
    IF words = <<>> THEN <<>>
    ELSE (IF Len(Head(words)) > 3 THEN <<Head(words)>> ELSE <<>>)
         \o LongWords(Tail(words))

\* list(s) of a set of strings s: its elements in the order of their hashes
RECURSIVE ListOfSet(_, _)
ListOfSet(s, seed) ==
    IF s = {} THEN <<>>
    ELSE LET w == CHOOSE x \in s : \A y \in s : HashOf(x, seed) <= HashOf(y, seed)
         IN  <<w>> \o ListOfSet(s \ {w}, seed)

\* The derivation without the limit of five: a faulty variant of
\* derive_keywords.
derive_keywords_unlimited(p, seed) ==
    LET keywords == LongWords(p.words) \o p.tags
        listed == ListOfSet({keywords[i] : i \in DOMAIN keywords}, seed)
    IN  IF listed = <<>> THEN [keywords |-> <<"app", "tool">>, defaulted |-> TRUE]
        ELSE [keywords |-> listed, defaulted |-> FALSE]

\* competitive.py:267-287  the keyword list of post p in an interpreter with
\* the given hash seed, and whether the default of lines 285-287 was taken
derive_keywords(p, seed) ==
    LET keywords == LongWords(p.words) \o p.tags
        listed == Prefix(ListOfSet({keywords[i] : i \in DOMAIN keywords}, seed), 5)
    IN  IF listed = <<>> THEN [keywords |-> <<"app", "tool">>, defaulted |-> TRUE]
        ELSE [keywords |-> listed, defaulted |-> FALSE]

InitKeywords ==
    /\ IdleEarly /\ IdleSearch /\ IdleBatch /\ IdleDemand /\ IdlePipe /\ IdleCache /\ IdleClient /\ IdleVelocity /\ IdleGold /\ IdleCreated /\ IdleMatrix
    /\ kwseed \in HashSeeds
    /\ kwcalls = <<>>

\* competitive.py:267-293  one enrichment call for post p: the keywords are
\* derived and handed to search_competitors
DeriveKeywords(p) ==
    /\ Len(kwcalls) < MaxKeywordCalls
    /\ LET d == derive_keywords(p, kwseed)
       IN  kwcalls' = Append(kwcalls, [post |-> p, seed |-> kwseed,
                                       keywords |-> d.keywords,
                                       defaulted |-> d.defaulted,
                                       searched |-> d.keywords])
    /\ UNCHANGED kwseed
    /\ UNCHANGED <<earlyVars, searchVars, batchVars, demandVars, pipeVars, cacheVars, clientVars, velocityVars, goldVars, createdVars, matrixVars>>

\* The program is run again: the interpreter draws another hash seed.
InterpreterRestarts(seed) ==
    /\ seed \in HashSeeds /\ seed # kwseed
    /\ Len(kwcalls) < MaxKeywordCalls
    /\ kwseed' = seed
    /\ UNCHANGED kwcalls
    /\ UNCHANGED <<earlyVars, searchVars, batchVars, demandVars, pipeVars, cacheVars, clientVars, velocityVars, goldVars, createdVars, matrixVars>>

NextKeywords ==
    \/ \E p \in KeywordPosts : DeriveKeywords(p)
    \/ \E seed \in HashSeeds : InterpreterRestarts(seed)

SpecKeywords == InitKeywords /\ [][NextKeywords]_vars

\* The words a post offers as keywords.
OfferedBy(p) ==
    {p.words[i] : i \in {j \in DOMAIN p.words : Len(p.words[j]) > 3}}
    \cup {p.tags[i] : i \in DOMAIN p.tags}

C36_KeywordsFunctionOfPost ==
    \A c, d \in DOMAIN kwcalls :
        kwcalls[c].post = kwcalls[d].post =>
            /\ kwcalls[c].keywords = kwcalls[d].keywords
            /\ kwcalls[c].searched = kwcalls[d].searched

\* What does hold of C36: within one run of the program two derivations for
\* the same post yield the same list, and across runs the same words as long
\* as the post offers at most 5.
C36_SameWithinOneRun ==
    \A c, d \in DOMAIN kwcalls :
        kwcalls[c].post = kwcalls[d].post =>
            /\ kwcalls[c].seed = kwcalls[d].seed =>
                  kwcalls[c].keywords = kwcalls[d].keywords
            /\ Cardinality(OfferedBy(kwcalls[c].post)) <= 5 =>
                  {kwcalls[c].keywords[i] : i \in DOMAIN kwcalls[c].keywords}
                    = {kwcalls[d].keywords[i] : i \in DOMAIN kwcalls[d].keywords}

(***************************************************************************)
(*     get_gold_zone_posts as main calls it (src/scoring.py,               *)
(*     main_v2.py)                                                         *)
(***************************************************************************)

\* Bound of the model: the number of scored posts of a run.
MaxGoldPosts == 12

\* scoring.py:226  limit: int = 10; main_v2.py:145 passes no limit
GOLD_LIMIT == 10

\* Which posts of a scored collection are in the gold zone, and how their
\* opportunity scores run.
GoldPatterns == {"all", "none", "odd", "last"}
ScoreOrders == {"rising", "falling", "equal"}

\* The scored post at place i of a collection of n: a gold-zone post has an
\* opportunity score of 70 or more, another one a smaller score.
ScoredPostAt(i, n, pattern, order) ==
    LET gold == CASE pattern = "all" -> TRUE
                  [] pattern = "none" -> FALSE
                  [] pattern = "odd" -> i % 2 = 1
                  [] pattern = "last" -> i = n
        step == CASE order = "rising" -> i
                  [] order = "falling" -> n - i
                  [] order = "equal" -> 0
    IN  [id |-> i, gold_zone |-> gold,
         opportunity_score |-> ((IF gold THEN 70 ELSE 10) + step) * Unit]

ScoredCollections ==
    {[i \in 1..n |-> ScoredPostAt(i, n, pattern, order)] :
        n \in 0..MaxGoldPosts, pattern \in GoldPatterns, order \in ScoreOrders}

\* scoring.py:240  [post for post in scored_posts if post.get("gold_zone", False)]
RECURSIVE GoldOnly(_)
GoldOnly(ps) ==
    IF ps = <<>> THEN <<>>
    ELSE (IF Head(ps).gold_zone THEN <<Head(ps)>> ELSE <<>>) \o GoldOnly(Tail(ps))

\* scoring.py:226-246  every post carries opportunity_score already (line 237
\* scores none again); the gold-zone posts are sorted and cut to limit
get_gold_zone_posts(ps, limit) == Prefix(SortedByOpportunity(GoldOnly(ps)), limit)

InitGold ==
    /\ IdleEarly /\ IdleSearch /\ IdleBatch /\ IdleDemand /\ IdlePipe /\ IdleCache /\ IdleClient /\ IdleVelocity /\ IdleKeywords /\ IdleCreated /\ IdleMatrix
    /\ gpc = "scored"
    /\ gposts \in ScoredCollections
    /\ gold_zone_posts = <<>>
    /\ greported = 0

\* main_v2.py:145-146, 163  gold_zone_posts = scorer.get_gold_zone_posts(
\* scored_posts) and the count that is printed
ReportGoldZone ==
    /\ gpc = "scored"
    /\ gold_zone_posts' = get_gold_zone_posts(gposts, GOLD_LIMIT)
    /\ greported' = Len(gold_zone_posts')
    /\ gpc' = "reported"
    /\ UNCHANGED gposts
    /\ UNCHANGED <<earlyVars, searchVars, batchVars, demandVars, pipeVars, cacheVars, clientVars, velocityVars, keywordVars, createdVars, matrixVars>>

NextGold == ReportGoldZone

SpecGold == InitGold /\ [][NextGold]_vars

\* The gold-zone posts of the scored collection.
GoldOf(ps) == {i \in DOMAIN ps : ps[i].gold_zone}

\* C38: the gold-zone list of a run holds every scored post whose gold_zone
\* flag is true and no other post, in non-increasing opportunity_score order,
\* and the count the run reports is the number of gold-zone posts of the
\* scored collection.
C38_EveryGoldZonePostListed ==
    gpc = "reported" =>
        /\ \A i \in GoldOf(gposts) :
              \E k \in DOMAIN gold_zone_posts : gold_zone_posts[k] = gposts[i]
        /\ \A k \in DOMAIN gold_zone_posts :
              gold_zone_posts[k].gold_zone
                 /\ \E i \in DOMAIN gposts : gold_zone_posts[k] = gposts[i]
        /\ \A j, k \in DOMAIN gold_zone_posts :
              j < k => gold_zone_posts[j].opportunity_score
                         >= gold_zone_posts[k].opportunity_score
        /\ greported = Cardinality(GoldOf(gposts))

\* What does hold of C38: the list holds gold-zone posts only, in
\* non-increasing order, the 10 best of them when there are more than 10.
C38_TenBestGoldZonePosts ==
    gpc = "reported" =>
        /\ \A k \in DOMAIN gold_zone_posts :
              gold_zone_posts[k].gold_zone
                 /\ \E i \in DOMAIN gposts : gold_zone_posts[k] = gposts[i]
        /\ \A j, k \in DOMAIN gold_zone_posts :
              j < k => gold_zone_posts[j].opportunity_score
                         >= gold_zone_posts[k].opportunity_score
        /\ greported = Min(Cardinality(GoldOf(gposts)), 10)
        /\ \A i \in GoldOf(gposts) :
              (\A k \in DOMAIN gold_zone_posts : gold_zone_posts[k] # gposts[i]) =>
                  \A k \in DOMAIN gold_zone_posts :
                      gold_zone_posts[k].opportunity_score
                         >= gposts[i].opportunity_score

(***************************************************************************)
(*     The created_at value of a post in score_post (src/scoring.py)       *)
(***************************************************************************)

\* The forms created_at comes in: a datetime without or with a time zone, an
\* ISO-8601 string without a zone ("2024-01-01T00:00:00"), with a trailing Z,
\* with a UTC offset ("+00:00"), a string that is no date, or no key at all.
CreatedForms ==
    {"datetime", "aware_datetime", "iso", "iso_z", "iso_offset", "unparsable",
     "absent"}
StringForms == {"iso", "iso_z", "iso_offset", "unparsable"}

\* The days the values of the model denote, as ages at the time of the call.
CreatedAges == {0, 3, 7, 29, 45}

\* scoring.py:162-168  the datetime score_post hands on for a created_at of
\* the given form that denotes day d when the clock shows t: the value
\* itself, fromisoformat(created_at.replace("Z", "+00:00")) for a string
\* (aware when the string names a zone), and seven days ago for a string
\* that does not parse and for a missing key
CreatedAtOf(form, d, t) ==
    CASE form = "datetime" -> [aware |-> FALSE, day |-> d]
      [] form = "aware_datetime" -> [aware |-> TRUE, day |-> d]
      [] form = "iso" -> [aware |-> FALSE, day |-> d]
      [] form \in {"iso_z", "iso_offset"} -> [aware |-> TRUE, day |-> d]
      [] form \in {"unparsable", "absent"} -> [aware |-> FALSE, day |-> t - 7]

\* scoring.py:139  datetime.now() - created_at: now() has no zone, and the
\* difference with a datetime that has one raises TypeError
SubtractionRaises(created_at) == created_at.aware

InitCreated ==
    /\ IdleEarly /\ IdleSearch /\ IdleBatch /\ IdleDemand /\ IdlePipe /\ IdleCache /\ IdleClient /\ IdleVelocity /\ IdleKeywords /\ IdleGold /\ IdleMatrix
    /\ tpc = "call"
    /\ tform \in CreatedForms
    /\ tday \in {Day0 - a : a \in CreatedAges}
    /\ tcomments \in {0, 12}
    /\ tvelocity = 0

\* scoring.py:151-207  score_post returns the scored post
ScorePostReturns ==
    /\ tpc = "call"
    /\ LET created_at == CreatedAtOf(tform, tday, Day0)
       IN  /\ ~SubtractionRaises(created_at)
           /\ tvelocity' =
                 score_post([score |-> 80, created_at |-> created_at.day,
                             comments_count |-> tcomments],
                            Day0).scoring_factors.velocity
    /\ tpc' = "returned"
    /\ UNCHANGED <<tform, tday, tcomments>>
    /\ UNCHANGED <<earlyVars, searchVars, batchVars, demandVars, pipeVars, cacheVars, clientVars, velocityVars, keywordVars, goldVars, matrixVars>>

\* scoring.py:178, 139  the TypeError of the subtraction leaves
\* calculate_velocity and score_post
ScorePostRaises ==
    /\ tpc = "call"
    /\ SubtractionRaises(CreatedAtOf(tform, tday, Day0))
    /\ tpc' = "raised"
    /\ UNCHANGED <<tform, tday, tcomments, tvelocity>>
    /\ UNCHANGED <<earlyVars, searchVars, batchVars, demandVars, pipeVars, cacheVars, clientVars, velocityVars, keywordVars, goldVars, matrixVars>>

NextCreated ==
    \/ ScorePostReturns
    \/ ScorePostRaises

SpecCreated == InitCreated /\ [][NextCreated]_vars

\* C39: score_post does not raise for a post whose created_at is a datetime
\* or a string: an ISO-8601 string, with or without a trailing Z or a UTC
\* offset, is parsed and its day used for the age, and a string that does not
\* parse is scored as 7 days old.
C39_NoRaiseForAnyCreatedAt ==
    /\ tpc # "raised"
    /\ tpc = "returned" =>
          /\ tform \in {"iso", "iso_z", "iso_offset"} =>
                tvelocity = calculate_velocity(tday, tcomments, Day0)
          /\ tform = "unparsable" =>
                tvelocity = calculate_velocity(Day0 - 7, tcomments, Day0)

\* What does hold of C39: score_post raises exactly for a created_at that
\* carries a time zone; a value without one is used for the age, and a
\* string that does not parse is scored as 7 days old.
C39_RaisesForZonedCreatedAt ==
    /\ tpc = "raised" <=>
          (tpc # "call" /\ tform \in {"aware_datetime", "iso_z", "iso_offset"})
    /\ tpc = "returned" =>
          /\ tform \in {"datetime", "iso"} =>
                tvelocity = calculate_velocity(tday, tcomments, Day0)
          /\ tform \in {"unparsable", "absent"} =>
                tvelocity = calculate_velocity(Day0 - 7, tcomments, Day0)

(***************************************************************************)
(*   DemandSupplyScorer.get_opportunity_matrix, the first-version scorer   *)
(*   (scoring_engine.py)                                                   *)
(*                                                                         *)
(*  A score is kept exactly, as a fraction num / den; a stored score is    *)
(*  in tenths; a sentiment and a rating are in hundredths.                 *)
(***************************************************************************)

\* Bound of the model: the number of ideas of a call.
MaxIdeas == 2

\* scoring_engine.py:15-18
max_post_score == 1000
recency_days == 30
max_apps == 50
max_rating == 5

\* The ideas of the model: the post score, what gpt_analysis says and the age
\* of created_date in days (7 when the key is missing, line 89).
Ideas ==
    [score : {150, 762, 1000}, analysis : {"none", "both"}, age : {1, 7}]

\* np.random.randint(0, 30) and np.random.uniform(2.5, 4.8) (lines 93-94):
\* the draws of the model, the rating in hundredths.
CompetitionDraws ==
    {[existing_apps |-> 0, rating_avg |-> 250],
     [existing_apps |-> 16, rating_avg |-> 469],
     [existing_apps |-> 29, rating_avg |-> 479]}

\* scoring_engine.py:79-86  0.5, 0.8 with unmet_need, 0.1 more with
\* monetizable, at most 1.0; in hundredths
matrix_sentiment(analysis) ==
    LET s0 == IF analysis \in {"unmet", "both"} THEN 80 ELSE 50
        s1 == IF analysis \in {"monetizable", "both"} THEN s0 + 10 ELSE s0
    IN  Min(100, s1)

\* scoring_engine.py:20-41  DemandSupplyScorer.calculate_demand_score
matrix_demand_score(post_score, sentiment, days_old) ==
    LET normalized_score == Min(100 * max_post_score, post_score * 100)
        normalized_sentiment == (sentiment + 100) \div 2
        recency_factor == Max(0, recency_days - days_old)
    IN  [num |-> normalized_score * normalized_sentiment * recency_factor,
         den |-> max_post_score * 100 * recency_days]

\* scoring_engine.py:43-59  DemandSupplyScorer.calculate_supply_score
matrix_supply_score(existing_apps_count, rating_avg) ==
    LET normalized_apps == Min(100 * max_apps, existing_apps_count * 100)
    IN  [num |-> normalized_apps * rating_avg, den |-> max_apps * 100 * max_rating]

\* scoring_engine.py:61-66  DemandSupplyScorer.is_gold_zone, called with the
\* scores before they are rounded (line 103)
matrix_is_gold_zone(demand_score, supply_score) ==
    /\ demand_score.num >= 70 * demand_score.den
    /\ supply_score.num <= 30 * supply_score.den

RECURSIVE InsertByDemand(_, _)
InsertByDemand(s, idea) ==
    IF s = <<>> THEN <<idea>>
    ELSE IF Head(s).demand_score >= idea.demand_score
         THEN <<Head(s)>> \o InsertByDemand(Tail(s), idea)
         ELSE <<idea>> \o s

\* scoring_engine.py:108  sorted(results, key=demand_score, reverse=True)
RECURSIVE SortedByDemand(_, _)
SortedByDemand(rs, acc) ==
    IF rs = <<>> THEN acc ELSE SortedByDemand(Tail(rs), InsertByDemand(acc, Head(rs)))

InitMatrix ==
    /\ IdleEarly /\ IdleSearch /\ IdleBatch /\ IdleDemand /\ IdlePipe /\ IdleCache /\ IdleClient /\ IdleVelocity /\ IdleKeywords /\ IdleGold /\ IdleCreated
    /\ mxpc = "loop"
    /\ ideas_list \in UNION {[1..n -> Ideas] : n \in 0..MaxIdeas}
    /\ xresults = <<>>
    /\ matrix = <<>>

\* scoring_engine.py:74-105  one pass of the loop, for the next idea
ScoreIdea(draw) ==
    /\ mxpc = "loop" /\ Len(xresults) < Len(ideas_list)
    /\ LET idea == ideas_list[Len(xresults) + 1]
           demand_score == matrix_demand_score(idea.score,
                                               matrix_sentiment(idea.analysis),
                                               idea.age)
           supply_score == matrix_supply_score(draw.existing_apps, draw.rating_avg)
       IN  \E d \in RoundedMeans(demand_score.num, demand_score.den \div 10),
              s \in RoundedMeans(supply_score.num, supply_score.den \div 10) :
               xresults' = Append(xresults,
                   [idea |-> idea, place |-> Len(xresults) + 1,
                    demand_score |-> d, supply_score |-> s,
                    gold_zone |-> matrix_is_gold_zone(demand_score, supply_score)])
    /\ UNCHANGED <<mxpc, ideas_list, matrix>>
    /\ UNCHANGED <<earlyVars, searchVars, batchVars, demandVars, pipeVars, cacheVars, clientVars, velocityVars, keywordVars, goldVars, createdVars>>

\* scoring_engine.py:107-108  the loop is over and the sorted list returned
MatrixReturns ==
    /\ mxpc = "loop" /\ Len(xresults) = Len(ideas_list)
    /\ matrix' = SortedByDemand(xresults, <<>>)
    /\ mxpc' = "returned"
    /\ UNCHANGED <<ideas_list, xresults>>
    /\ UNCHANGED <<earlyVars, searchVars, batchVars, demandVars, pipeVars, cacheVars, clientVars, velocityVars, keywordVars, goldVars, createdVars>>

NextMatrix ==
    \/ \E draw \in CompetitionDraws : ScoreIdea(draw)
    \/ MatrixReturns

SpecMatrix == InitMatrix /\ [][NextMatrix]_vars

\* C40: in the first-version scorer the gold_zone flag stored on an idea
\* agrees with the scores stored on it: gold_zone is true if and only if the
\* stored demand_score is >= 70 and the stored supply_score is <= 30.
C40_FlagAgreesWithStoredScores ==
    mxpc = "returned" =>
        \A i \in DOMAIN matrix :
            matrix[i].gold_zone <=>
                (matrix[i].demand_score >= 700 /\ matrix[i].supply_score <= 300)

\* What does hold of C40: a stored flag that is true comes with stored scores
\* inside the zone; a flag that is false can come with a stored demand of
\* 70.0 or a stored supply of 30.0, rounded into the zone from outside.
C40_FlagImpliesStoredScores ==
    mxpc = "returned" =>
        \A i \in DOMAIN matrix :
            /\ matrix[i].gold_zone =>
                  (matrix[i].demand_score >= 700 /\ matrix[i].supply_score <= 300)
            /\ (~matrix[i].gold_zone /\ matrix[i].demand_score >= 700
                   /\ matrix[i].supply_score <= 300) =>
                  (matrix[i].demand_score = 700 \/ matrix[i].supply_score = 300)

====
